---------------------------- MODULE Spec2Model ----------------------------
(***************************************************************************)
(* gnomegg moderation backend: bans, mutes, roles and name resolution,     *)
(* each served by a redis cache tier, a MySQL persistent tier and a Hybrid *)
(* provider that composes the two.                                         *)
(*                                                                         *)
(* Every provider call is one action.  A call draws, with its arguments,   *)
(* the cache commands and the database statements that fail in transport   *)
(* during the call: c is the set of indexes k such that the k-th command   *)
(* the call sends to redis fails, p the same for MySQL.  The outcome of    *)
(* the call is kept in `last` until the caller takes it (action Return).   *)
(*                                                                         *)
(* Option<T> is a set: None is {} and Some(x) is {x}.                       *)
(* Result<T, E> is a record [ok, val, err].                                 *)
(*                                                                         *)
(* The four provider families share no redis key and no table, so a        *)
(* behaviour drives one family, chosen in Init (variable family).          *)
(***************************************************************************)
EXTENDS Integers, Sequences, FiniteSets, TLC

\* ------------------------------------------------------------------ bounds
\* The clock runs from 0 to MaxTime.
MaxTime == 1
\* Provider calls and foreign cache writes in one behaviour.
MaxOps == 2
\* u64 / i64 are scaled down to DurBits bits (TLC integers are 32 bits wide).
DurBits == 3

Users == {1, 2}
Addrs == {"10.0.0.1"}
Names == {"MrMouton", "Harkdan"}
Families == {"bans", "mutes", "roles", "names"}

RECURSIVE TwoPow(_)
TwoPow(n) == IF n = 0 THEN 1 ELSE 2 * TwoPow(n - 1)

\* Durations (nanoseconds, here clock units) a caller passes.
Durations == {1}
OptDurations == {{}} \cup {{d} : d \in Durations}
OptAddrs == {{}} \cup {{a} : a \in Addrs}

\* Transport failures of a call that sends n commands to a tier one after
\* the other, stopping at the first that fails: none, or the k-th.
Faults(n) == {{}} \cup {{k} : k \in 1..n}
\* A read that falls back and then writes the cache again: the cache answers,
\* or fails once, or is down for the whole call.
ReadFaults == {{}, {1}, {1, 2}}

VARIABLES
  family,       \* the provider family this behaviour drives
  now,          \* the wall clock (Utc::now())
  cBanned,      \* redis keys banned::<user_id>
  cBannedAddr,  \* redis keys banned_addr::<ip>
  cMuted,       \* redis keys muted::<user_id>
  cRoles,       \* redis sets roles::<user_id>
  cUserId,      \* redis keys user_id::<username>
  cUsername,    \* redis keys username::<user_id>
  pBans,        \* MySQL table bans, keyed by user_id
  pMutes,       \* MySQL table mutes, keyed by user_id
  pRoles,       \* MySQL table roles, keyed by user_id
  pUsers,       \* MySQL table users, keyed by id: the username column
  pIds,         \* MySQL table ids, keyed by username: the user_id column
  last,         \* the call in progress: its arguments and what it returned
  nops,         \* calls made so far
  workers       \* the call each concurrent worker has in progress

vars == <<family, now, cBanned, cBannedAddr, cMuted, cRoles, cUserId, cUsername,
          pBans, pMutes, pRoles, pUsers, pIds, last, nops, workers>>
banVars == <<cBanned, cBannedAddr, pBans>>
muteVars == <<cMuted, pMutes>>
roleVars == <<cRoles, pRoles>>
nameVars == <<cUserId, cUsername, pUsers, pIds>>

\* ----------------------------------------------------------------- results
Ok(v) == [ok |-> TRUE, val |-> v, err |-> "none"]
Err(e) == [ok |-> FALSE, val |-> {}, err |-> e]
\* A tier the call never reached.
NoCall == [ok |-> FALSE, val |-> {}, err |-> "nocall"]

\* Result::or in place of Result::and.
AndAsOr(a, b) == IF a.ok THEN a ELSE b

\* Result::and: the argument is evaluated before the combinator runs.
And(a, b) == IF a.ok THEN b ELSE a

The(s) == CHOOSE x \in s : TRUE

\* u64 `as i64`, at DurBits bits.
AsI64(d) == IF d >= TwoPow(DurBits - 1) THEN d - TwoPow(DurBits) ELSE d

\* ------------------------------------------------------------------- bans
NewBan(user_id, duration, initiated_at, ip) ==
  [user_id |-> user_id, duration |-> duration,
   initiated_at |-> initiated_at, ip |-> ip]

BanActiveFor(b) == {AsI64(d) : d \in b.duration}

BanActive(b, t) ==
  IF BanActiveFor(b) = {} THEN TRUE ELSE t < b.initiated_at + The(BanActiveFor(b))

\* serde_json::to_vec / from_str of a ban.  Anything that is not the four
\* fields of a ban fails to decode.
BanToJson(b) == <<b.user_id, b.duration, b.initiated_at, b.ip>>
BanFromJson(s) ==
  IF Len(s) = 4 THEN Ok(NewBan(s[1], s[2], s[3], s[4])) ELSE Err("Serde")

\* Bytes that are text but not a record.
Junk == <<>>

\* The closure both Cache::register_ban and Cache::get_ban apply to the
\* reply: raw.map(from_str(..).map(Some))?.unwrap_or(None).
BanReply(raw) ==
  IF raw = {} THEN {}
  ELSE IF BanFromJson(The(raw)).ok THEN {BanFromJson(The(raw)).val} ELSE {}

CacheRegisterBan(kv, ban, c) ==
  LET hasAddr == ban.ip # {}
      g == IF hasAddr THEN 2 ELSE 1
      kv1 == IF hasAddr /\ 1 \notin c
             THEN [kv EXCEPT !.addr[The(ban.ip)] = {BanToJson(ban)}] ELSE kv
  IN IF hasAddr /\ 1 \in c THEN [kv |-> kv, res |-> Err("Redis")]
     ELSE IF g \in c THEN [kv |-> kv1, res |-> Err("Redis")]
     ELSE [kv |-> [kv1 EXCEPT !.banned[ban.user_id] = {BanToJson(ban)}],
           res |-> Ok(BanReply(kv1.banned[ban.user_id]))]

\* set_banned that answers an unban with "the DEL went through".
CacheSetBannedDelTrue(kv, user_id, banned, duration, ip, c, t) ==
  IF ~banned THEN
    LET g == IF ip # {} THEN 2 ELSE 1
        kv1 == IF ip # {} /\ 1 \notin c
               THEN [kv EXCEPT !.addr[The(ip)] = {}] ELSE kv
    IN IF ip # {} /\ 1 \in c THEN [kv |-> kv, res |-> Err("Redis")]
       ELSE IF g \in c THEN [kv |-> kv1, res |-> Err("Redis")]
       ELSE [kv |-> [kv1 EXCEPT !.banned[user_id] = {}], res |-> Ok(TRUE)]
  ELSE
    LET r == CacheRegisterBan(kv, NewBan(user_id, duration, t, ip), c)
    IN IF ~r.res.ok THEN r
       ELSE [kv |-> r.kv,
             res |-> Ok(r.res.val # {} /\ BanActive(The(r.res.val), t))]

CacheSetBanned(kv, user_id, banned, duration, ip, c, t) ==
  IF ~banned THEN
    LET g == IF ip # {} THEN 2 ELSE 1
        kv1 == IF ip # {} /\ 1 \notin c
               THEN [kv EXCEPT !.addr[The(ip)] = {}] ELSE kv
    IN IF ip # {} /\ 1 \in c THEN [kv |-> kv, res |-> Err("Redis")]
       ELSE IF g \in c THEN [kv |-> kv1, res |-> Err("Redis")]
       ELSE [kv |-> [kv1 EXCEPT !.banned[user_id] = {}],
             res |-> Ok(kv1.banned[user_id] # {})]
  ELSE
    LET r == CacheRegisterBan(kv, NewBan(user_id, duration, t, ip), c)
    IN IF ~r.res.ok THEN r
       ELSE [kv |-> r.kv,
             res |-> Ok(r.res.val # {} /\ BanActive(The(r.res.val), t))]

\* A query is <<"id", user_id>> or <<"addr", ip>>.
CacheGetBan(kv, q, c) ==
  IF 1 \in c THEN Err("Redis")
  ELSE Ok(BanReply(IF q[1] = "addr" THEN kv.addr[q[2]] ELSE kv.banned[q[2]]))

\* is_banned that answers true for any record, expired or not.
CacheIsBannedAnyRecord(kv, q, c, t) ==
  LET r == CacheGetBan(kv, q, c)
  IN IF ~r.ok THEN r ELSE Ok(r.val # {})

CacheIsBanned(kv, q, c, t) ==
  LET r == CacheGetBan(kv, q, c)
  IN IF ~r.ok THEN r ELSE Ok(r.val # {} /\ BanActive(The(r.val), t))

\* The row `first` returns for a filter on ip: rows in primary-key order.
RowsWithIp(tbl, a) == {u \in DOMAIN tbl : tbl[u] # {} /\ The(tbl[u]).ip = {a}}
MinOf(s) == CHOOSE x \in s : \A y \in s : x <= y

\* k is the index, within the Hybrid call, of the statement get_ban runs.
\* get_ban that hands the store's NotFound on to the caller.
PersistentGetBanNotFound(tbl, q, p, k) ==
  IF k \in p THEN Err("Diesel")
  ELSE IF q[1] = "id"
  THEN IF tbl[q[2]] = {} THEN Err("DieselNotFound") ELSE Ok(tbl[q[2]])
  ELSE IF RowsWithIp(tbl, q[2]) = {} THEN Err("DieselNotFound")
  ELSE Ok(tbl[MinOf(RowsWithIp(tbl, q[2]))])

PersistentGetBan(tbl, q, p, k) ==
  IF k \in p THEN Err("Diesel")
  ELSE IF q[1] = "id" THEN Ok(tbl[q[2]])
  ELSE IF RowsWithIp(tbl, q[2]) = {} THEN Ok({})
  ELSE Ok(tbl[MinOf(RowsWithIp(tbl, q[2]))])

PersistentIsBanned(tbl, q, p, t) ==
  LET r == PersistentGetBan(tbl, q, p, 1)
  IN IF ~r.ok THEN r ELSE Ok(r.val # {} /\ BanActive(The(r.val), t))

\* get_ban is statement k, replace_into statement k + 1.
PersistentRegisterBan(tbl, ban, p, k) ==
  LET old == PersistentGetBan(tbl, <<"id", ban.user_id>>, p, k)
  IN IF ~old.ok THEN [tbl |-> tbl, res |-> old]
     ELSE IF (k + 1) \in p THEN [tbl |-> tbl, res |-> Err("Diesel")]
     ELSE [tbl |-> [tbl EXCEPT ![ban.user_id] = {ban}], res |-> Ok(old.val)]

PersistentSetBanned(tbl, user_id, banned, duration, ip, p, t) ==
  LET old == PersistentGetBan(tbl, <<"id", user_id>>, p, 1)
  IN IF ~old.ok THEN [tbl |-> tbl, res |-> old]
     ELSE IF ~banned THEN
       IF 2 \in p THEN [tbl |-> tbl, res |-> Err("Diesel")]
       ELSE [tbl |-> [tbl EXCEPT ![user_id] = {}],
             res |-> Ok(old.val # {} /\ BanActive(The(old.val), t))]
     ELSE
       LET r == PersistentRegisterBan(tbl, NewBan(user_id, duration, t, ip), p, 2)
       IN IF ~r.res.ok THEN r
          ELSE [tbl |-> r.tbl,
                res |-> Ok(r.res.val # {} /\ BanActive(The(r.res.val), t))]

\* tc and tp are the clock readings of the cache call and of the persistent
\* call that follows it.
HybridSetBanned(kv, tbl, user_id, banned, duration, ip, c, p, tc, tp) ==
  LET cr == CacheSetBanned(kv, user_id, banned, duration, ip, c, tc)
      pr == PersistentSetBanned(tbl, user_id, banned, duration, ip, p, tp)
  IN [kv |-> cr.kv, tbl |-> pr.tbl, cres |-> cr.res, pres |-> pr.res,
      rep |-> NoCall, res |-> And(cr.res, pr.res)]

\* register_ban that writes the cache and never reaches the database.
HybridRegisterBanCacheOnly(kv, tbl, ban, c, p) ==
  LET cr == CacheRegisterBan(kv, ban, c)
  IN [kv |-> cr.kv, tbl |-> tbl, cres |-> cr.res, pres |-> Ok({}),
      rep |-> NoCall, res |-> And(cr.res, Ok({}))]

HybridRegisterBan(kv, tbl, ban, c, p) ==
  LET cr == CacheRegisterBan(kv, ban, c)
      pr == PersistentRegisterBan(tbl, ban, p, 1)
  IN [kv |-> cr.kv, tbl |-> pr.tbl, cres |-> cr.res, pres |-> pr.res,
      rep |-> NoCall, res |-> And(cr.res, pr.res)]

\* get_ban that also falls back when the cache answers with no record.
HybridGetBanFallOnMiss(kv, tbl, q, c, p) ==
  LET cr == CacheGetBan(kv, q, c)
      miss == cr.ok /\ cr.val = {}
      pr == IF cr.ok /\ ~miss THEN NoCall ELSE PersistentGetBan(tbl, q, p, 1)
  IN [cres |-> cr, pres |-> pr, rep |-> NoCall,
      res |-> IF cr.ok /\ ~miss THEN cr ELSE pr]

HybridGetBan(kv, tbl, q, c, p) ==
  LET cr == CacheGetBan(kv, q, c)
      pr == IF cr.ok THEN NoCall ELSE PersistentGetBan(tbl, q, p, 1)
  IN [cres |-> cr, pres |-> pr, rep |-> NoCall,
      res |-> IF cr.ok THEN cr ELSE pr]

\* is_banned that asks the database whenever the cache does not say true.
HybridIsBannedFallOnFalse(kv, tbl, q, c, p, t) ==
  LET cr == CacheIsBanned(kv, q, c, t)
      hit == cr.ok /\ cr.val
      pr == IF hit THEN NoCall ELSE PersistentIsBanned(tbl, q, p, t)
  IN [cres |-> cr, pres |-> pr, rep |-> NoCall,
      res |-> IF hit THEN cr ELSE pr]

HybridIsBanned(kv, tbl, q, c, p, t) ==
  LET cr == CacheIsBanned(kv, q, c, t)
      pr == IF cr.ok THEN NoCall ELSE PersistentIsBanned(tbl, q, p, t)
  IN [cres |-> cr, pres |-> pr, rep |-> NoCall,
      res |-> IF cr.ok THEN cr ELSE pr]


\* ------------------------------------------------------------------ mutes
NewMute(user_id, duration, initiated_at) ==
  [user_id |-> user_id, duration |-> duration, initiated_at |-> initiated_at]

\* duration.try_into().or_default(): a u64 that does not fit i64 becomes 0.
TryIntoI64(d) == IF d >= TwoPow(DurBits - 1) THEN 0 ELSE d

MuteActive(m, t) == t < m.initiated_at + TryIntoI64(m.duration)

MuteToJson(m) == <<m.user_id, m.duration, m.initiated_at>>
MuteFromJson(s) ==
  IF Len(s) = 3 THEN Ok(NewMute(s[1], s[2], s[3])) ELSE Err("Serde")

\* raw.map(from_slice(..).map(Some))?.unwrap_or(None)
MuteReply(raw) ==
  IF raw = {} THEN {}
  ELSE IF MuteFromJson(The(raw)).ok THEN {MuteFromJson(The(raw)).val} ELSE {}

\* redis answers SET with the status OK, not with the value it replaced.
\* The client library either hands the status to the caller as bytes, which
\* then go through the closure above, or refuses to convert it to
\* Option<Vec<u8>>: asBytes tells which.
StatusOk == <<"OK">>
SetReply(asBytes) == IF asBytes THEN Ok(MuteReply({StatusOk})) ELSE Err("Redis")

CacheRegisterMute(kv, mute, c, asBytes) ==
  IF 1 \in c THEN [kv |-> kv, res |-> Err("Redis")]
  ELSE [kv |-> [kv EXCEPT ![mute.user_id] = {MuteToJson(mute)}],
        res |-> SetReply(asBytes)]

\* GET is the k-th command of the call.
CacheGetMute(kv, user_id, c, k) ==
  IF k \in c THEN Err("Redis") ELSE Ok(MuteReply(kv[user_id]))

CacheIsMuted(kv, user_id, c, k, t) ==
  LET r == CacheGetMute(kv, user_id, c, k)
  IN IF ~r.ok THEN r ELSE Ok(r.val # {} /\ MuteActive(The(r.val), t))

\* set_muted that takes a missing duration for no duration at all.
CacheSetMutedDefault(kv, user_id, muted, duration, c, asBytes, t) ==
  IF ~muted THEN
    LET already == CacheIsMuted(kv, user_id, c, 1, t)
    IN IF ~already.ok THEN [kv |-> kv, res |-> already]
       ELSE IF 2 \in c THEN [kv |-> kv, res |-> Err("Redis")]
       ELSE [kv |-> [kv EXCEPT ![user_id] = {}], res |-> Ok(already.val)]
  ELSE
    LET d == IF duration = {} THEN 0 ELSE The(duration)
        r == CacheRegisterMute(kv, NewMute(user_id, d, t), c, asBytes)
    IN IF ~r.res.ok THEN r
       ELSE [kv |-> r.kv,
             res |-> Ok(r.res.val # {} /\ MuteActive(The(r.res.val), t))]

CacheSetMuted(kv, user_id, muted, duration, c, asBytes, t) ==
  IF ~muted THEN
    LET already == CacheIsMuted(kv, user_id, c, 1, t)
    IN IF ~already.ok THEN [kv |-> kv, res |-> already]
       ELSE IF 2 \in c THEN [kv |-> kv, res |-> Err("Redis")]
       ELSE [kv |-> [kv EXCEPT ![user_id] = {}], res |-> Ok(already.val)]
  ELSE IF duration = {} THEN [kv |-> kv, res |-> Err("MissingArgument")]
  ELSE
    LET r == CacheRegisterMute(kv, NewMute(user_id, The(duration), t), c, asBytes)
    IN IF ~r.res.ok THEN r
       ELSE [kv |-> r.kv,
             res |-> Ok(r.res.val # {} /\ MuteActive(The(r.res.val), t))]

PersistentGetMute(tbl, user_id, p, k) ==
  IF k \in p THEN Err("Diesel") ELSE Ok(tbl[user_id])

PersistentIsMuted(tbl, user_id, p, t) ==
  LET r == PersistentGetMute(tbl, user_id, p, 1)
  IN IF ~r.ok THEN r ELSE Ok(r.val # {} /\ MuteActive(The(r.val), t))

\* get_mute is statement k, insert_into statement k + 1.  The table's
\* primary key is user_id: an INSERT for a user who has a row is refused.
PersistentRegisterMute(tbl, mute, p, k) ==
  LET old == PersistentGetMute(tbl, mute.user_id, p, k)
  IN IF ~old.ok THEN [tbl |-> tbl, res |-> old]
     ELSE IF (k + 1) \in p THEN [tbl |-> tbl, res |-> Err("Diesel")]
     ELSE IF tbl[mute.user_id] # {} THEN [tbl |-> tbl, res |-> Err("DieselDuplicate")]
     ELSE [tbl |-> [tbl EXCEPT ![mute.user_id] = {mute}], res |-> Ok(old.val)]

PersistentSetMuted(tbl, user_id, muted, duration, p, t) ==
  LET old == PersistentGetMute(tbl, user_id, p, 1)
  IN IF ~old.ok THEN [tbl |-> tbl, res |-> old]
     ELSE IF ~muted THEN
       IF 2 \in p THEN [tbl |-> tbl, res |-> Err("Diesel")]
       ELSE [tbl |-> [tbl EXCEPT ![user_id] = {}],
             res |-> Ok(old.val # {} /\ MuteActive(The(old.val), t))]
     ELSE IF duration = {} THEN [tbl |-> tbl, res |-> Err("MissingArgument")]
     ELSE
       LET r == PersistentRegisterMute(tbl, NewMute(user_id, The(duration), t), p, 2)
       IN IF ~r.res.ok THEN r
          ELSE [tbl |-> r.tbl,
                res |-> Ok(r.res.val # {} /\ MuteActive(The(r.res.val), t))]

HybridSetMuted(kv, tbl, user_id, muted, duration, c, p, asBytes, tc, tp) ==
  LET cr == CacheSetMuted(kv, user_id, muted, duration, c, asBytes, tc)
      pr == PersistentSetMuted(tbl, user_id, muted, duration, p, tp)
  IN [kv |-> cr.kv, tbl |-> pr.tbl, cres |-> cr.res, pres |-> pr.res,
      rep |-> NoCall, res |-> And(cr.res, pr.res)]

HybridRegisterMute(kv, tbl, mute, c, p, asBytes) ==
  LET cr == CacheRegisterMute(kv, mute, c, asBytes)
      pr == PersistentRegisterMute(tbl, mute, p, 1)
  IN [kv |-> cr.kv, tbl |-> pr.tbl, cres |-> cr.res, pres |-> pr.res,
      rep |-> NoCall, res |-> And(cr.res, pr.res)]

HybridGetMute(kv, tbl, user_id, c, p) ==
  LET cr == CacheGetMute(kv, user_id, c, 1)
      pr == IF cr.ok THEN NoCall ELSE PersistentGetMute(tbl, user_id, p, 1)
  IN [cres |-> cr, pres |-> pr, rep |-> NoCall,
      res |-> IF cr.ok THEN cr ELSE pr]

\* is_muted with no fallback: the cache's result, error included.
HybridIsMutedCacheOnly(kv, tbl, user_id, c, p, t) ==
  LET cr == CacheIsMuted(kv, user_id, c, 1, t)
  IN [cres |-> cr, pres |-> NoCall, rep |-> NoCall, res |-> cr]

HybridIsMuted(kv, tbl, user_id, c, p, t) ==
  LET cr == CacheIsMuted(kv, user_id, c, 1, t)
      pr == IF cr.ok THEN NoCall ELSE PersistentIsMuted(tbl, user_id, p, t)
  IN [cres |-> cr, pres |-> pr, rep |-> NoCall,
      res |-> IF cr.ok THEN cr ELSE pr]

\* ------------------------------------------------------------------ roles
Roles == {"Administrator", "Moderator", "VIP", "Protected", "Subscriber", "Bot"}

RoleToStr(r) ==
  CASE r = "Administrator" -> "administrator"
    [] r = "Moderator" -> "moderator"
    [] r = "VIP" -> "vip"
    [] r = "Protected" -> "protected"
    [] r = "Subscriber" -> "subscriber"
    [] r = "Bot" -> "bot"

RoleFromStr(s) ==
  CASE s = "administrator" -> Ok("Administrator")
    [] s = "moderator" -> Ok("Moderator")
    [] s = "vip" -> Ok("VIP")
    [] s = "protected" -> Ok("Protected")
    [] s = "subscriber" -> Ok("Subscriber")
    [] s = "bot" -> Ok("Bot")
    [] OTHER -> Err("NoMatchingRole")

\* SISMEMBER is the k-th command of the call.
CacheHasRole(kv, user_id, role, c, k) ==
  IF k \in c THEN Err("Redis") ELSE Ok(RoleToStr(role) \in kv[user_id])

\* SADD with the members' strings; redis refuses a SADD that names no member.
\* give_roles that SETs the key to the given roles.
CacheGiveRolesSet(kv, user_id, roles, c, k) ==
  IF k \in c \/ roles = {} THEN [kv |-> kv, res |-> Err("Redis")]
  ELSE [kv |-> [kv EXCEPT ![user_id] = {RoleToStr(r) : r \in roles}],
        res |-> Ok({})]

CacheGiveRoles(kv, user_id, roles, c, k) ==
  IF k \in c \/ roles = {} THEN [kv |-> kv, res |-> Err("Redis")]
  ELSE [kv |-> [kv EXCEPT ![user_id] = @ \cup {RoleToStr(r) : r \in roles}],
        res |-> Ok({})]

CacheGiveRole(kv, user_id, role, c, k) == CacheGiveRoles(kv, user_id, {role}, c, k)

CacheRemoveRole(kv, user_id, role, c, k) ==
  IF k \in c THEN [kv |-> kv, res |-> Err("Redis")]
  ELSE [kv |-> [kv EXCEPT ![user_id] = @ \ {RoleToStr(role)}], res |-> Ok({})]

\* roles_for_user that fails on a member that names no role.
CacheRolesForUserStrict(kv, user_id, c, k) ==
  IF k \in c THEN Err("Redis")
  ELSE IF \E x \in kv[user_id] : ~RoleFromStr(x).ok THEN Err("NoMatchingRole")
  ELSE Ok({RoleFromStr(s).val : s \in kv[user_id]})

\* SMEMBERS, then filter_map(parse().ok()).
CacheRolesForUser(kv, user_id, c, k) ==
  IF k \in c THEN Err("Redis")
  ELSE Ok({RoleFromStr(s).val : s \in {x \in kv[user_id] : RoleFromStr(x).ok}})

CachePurgeRoles(kv, user_id, c) ==
  LET old == CacheRolesForUser(kv, user_id, c, 1)
  IN IF ~old.ok THEN [kv |-> kv, res |-> old]
     ELSE IF 2 \in c THEN [kv |-> kv, res |-> Err("Redis")]
     ELSE [kv |-> [kv EXCEPT ![user_id] = {}], res |-> old]

\* A row of table roles: each flag column is NULL ({}), true or false.
NullRow == [r \in Roles |-> {}]
RoleEntryHasRole(row, role) == row[role] = {TRUE}
RoleEntryToVec(row) == {r \in Roles : row[r] = {TRUE}}

PersistentHasRole(tbl, user_id, role, p) ==
  IF 1 \in p THEN Err("Diesel")
  ELSE IF tbl[user_id] = {} THEN Err("DieselNotFound")
  ELSE Ok(RoleEntryHasRole(The(tbl[user_id]), role))

\* REPLACE INTO roles(user_id, <role>): the row is rebuilt from the named
\* flags alone.
SetFlagsReplace(tbl, user_id, roles, flag) ==
  [tbl EXCEPT ![user_id] = {[r \in Roles |-> IF r \in roles THEN {flag} ELSE {}]}]

\* IF EXISTS (..) UPDATE roles SET <role> = <flag> ELSE INSERT (user_id, <role>)
SetFlags(tbl, user_id, roles, flag) ==
  LET row == IF tbl[user_id] = {} THEN NullRow ELSE The(tbl[user_id])
  IN [tbl EXCEPT ![user_id] = {[r \in Roles |-> IF r \in roles THEN {flag} ELSE row[r]]}]

PersistentGiveRole(tbl, user_id, role, p) ==
  IF 1 \in p THEN [tbl |-> tbl, res |-> Err("Diesel")]
  ELSE [tbl |-> SetFlags(tbl, user_id, {role}, TRUE), res |-> Ok({})]

\* With no role the statement reads "UPDATE roles SET  WHERE ..": refused.
PersistentGiveRoles(tbl, user_id, roles, p) ==
  IF 1 \in p \/ roles = {} THEN [tbl |-> tbl, res |-> Err("Diesel")]
  ELSE [tbl |-> SetFlags(tbl, user_id, roles, TRUE), res |-> Ok({})]

PersistentRemoveRole(tbl, user_id, role, p) ==
  IF 1 \in p THEN [tbl |-> tbl, res |-> Err("Diesel")]
  ELSE [tbl |-> SetFlags(tbl, user_id, {role}, FALSE), res |-> Ok({})]

\* first().optional()?.unwrap_or_default()
PersistentRolesForUser(tbl, user_id, p, k) ==
  IF k \in p THEN Err("Diesel")
  ELSE Ok(RoleEntryToVec(IF tbl[user_id] = {} THEN NullRow ELSE The(tbl[user_id])))

PersistentPurgeRoles(tbl, user_id, p) ==
  LET roles == PersistentRolesForUser(tbl, user_id, p, 1)
  IN IF ~roles.ok THEN [tbl |-> tbl, res |-> roles]
     ELSE IF 2 \in p THEN [tbl |-> tbl, res |-> Err("Diesel")]
     ELSE [tbl |-> [tbl EXCEPT ![user_id] = {}], res |-> roles]

HybridHasRole(kv, tbl, user_id, role, c, p) ==
  LET cr == CacheHasRole(kv, user_id, role, c, 1)
      pr == IF cr.ok THEN NoCall ELSE PersistentHasRole(tbl, user_id, role, p)
      rp == IF cr.ok \/ ~pr.ok THEN [kv |-> kv, res |-> NoCall]
            ELSE IF pr.val THEN CacheGiveRole(kv, user_id, role, c, 2)
            ELSE CacheRemoveRole(kv, user_id, role, c, 2)
  IN [kv |-> rp.kv, tbl |-> tbl, cres |-> cr, pres |-> pr, rep |-> rp.res,
      res |-> IF cr.ok THEN cr
              ELSE IF ~pr.ok THEN pr
              ELSE IF ~rp.res.ok THEN rp.res ELSE pr]

HybridGiveRole(kv, tbl, user_id, role, c, p) ==
  LET cr == CacheGiveRole(kv, user_id, role, c, 1)
      pr == PersistentGiveRole(tbl, user_id, role, p)
  IN [kv |-> cr.kv, tbl |-> pr.tbl, cres |-> cr.res, pres |-> pr.res,
      rep |-> NoCall, res |-> And(cr.res, pr.res)]

HybridGiveRoles(kv, tbl, user_id, roles, c, p) ==
  LET cr == CacheGiveRoles(kv, user_id, roles, c, 1)
      pr == PersistentGiveRoles(tbl, user_id, roles, p)
  IN [kv |-> cr.kv, tbl |-> pr.tbl, cres |-> cr.res, pres |-> pr.res,
      rep |-> NoCall, res |-> And(cr.res, pr.res)]

HybridRemoveRole(kv, tbl, user_id, role, c, p) ==
  LET cr == CacheRemoveRole(kv, user_id, role, c, 1)
      pr == PersistentRemoveRole(tbl, user_id, role, p)
  IN [kv |-> cr.kv, tbl |-> pr.tbl, cres |-> cr.res, pres |-> pr.res,
      rep |-> NoCall, res |-> And(cr.res, pr.res)]

\* purge_roles that returns the list the cache read.
HybridPurgeRolesCacheValue(kv, tbl, user_id, c, p) ==
  LET cr == CachePurgeRoles(kv, user_id, c)
      pr == PersistentPurgeRoles(tbl, user_id, p)
  IN [kv |-> cr.kv, tbl |-> pr.tbl, cres |-> cr.res, pres |-> pr.res,
      rep |-> NoCall, res |-> IF cr.res.ok /\ pr.res.ok THEN cr.res
                              ELSE And(cr.res, pr.res)]

HybridPurgeRoles(kv, tbl, user_id, c, p) ==
  LET cr == CachePurgeRoles(kv, user_id, c)
      pr == PersistentPurgeRoles(tbl, user_id, p)
  IN [kv |-> cr.kv, tbl |-> pr.tbl, cres |-> cr.res, pres |-> pr.res,
      rep |-> NoCall, res |-> And(cr.res, pr.res)]

HybridRolesForUser(kv, tbl, user_id, c, p) ==
  LET cr == CacheRolesForUser(kv, user_id, c, 1)
      pr == IF cr.ok THEN NoCall ELSE PersistentRolesForUser(tbl, user_id, p, 1)
      rp == IF cr.ok \/ ~pr.ok THEN [kv |-> kv, res |-> NoCall]
            ELSE CacheGiveRoles(kv, user_id, pr.val, c, 2)
  IN [kv |-> rp.kv, tbl |-> tbl, cres |-> cr, pres |-> pr, rep |-> rp.res,
      res |-> IF cr.ok THEN cr
              ELSE IF ~pr.ok THEN pr
              ELSE IF ~rp.res.ok THEN rp.res ELSE pr]

\* ------------------------------------------------------------------ names
\* kv = [uid: keys user_id::<username>, uname: keys username::<user_id>]
CacheUserIdFor(kv, username, c, k) ==
  IF k \in c THEN Err("Redis") ELSE Ok(kv.uid[username])

CacheUsernameFor(kv, user_id, c, k) ==
  IF k \in c THEN Err("Redis") ELSE Ok(kv.uname[user_id])

\* One MSET writes both keys.
CacheSetCombination(kv, username, user_id, c, k) ==
  IF k \in c THEN [kv |-> kv, res |-> Err("Redis")]
  ELSE [kv |-> [uid |-> [kv.uid EXCEPT ![username] = {user_id}],
                uname |-> [kv.uname EXCEPT ![user_id] = {username}]],
        res |-> Ok({})]

\* db = [users: id -> no row {} | {username column}, ids: username -> user_id]
PersistentUserIdFor(db, username, p) ==
  IF 1 \in p THEN Err("Diesel") ELSE Ok(db.ids[username])

\* users.find(user_id).select(username).first(): no row is an error.
PersistentUsernameFor(db, user_id, p) ==
  IF 1 \in p THEN Err("Diesel")
  ELSE IF db.users[user_id] = {} THEN Err("DieselNotFound")
  ELSE Ok(The(db.users[user_id]))

\* set_combination that writes table ids and leaves table users alone.
PersistentSetCombinationIdsOnly(db, username, user_id, p) ==
  IF 1 \in p \/ 2 \in p THEN [db |-> db, res |-> Err("Diesel")]
  ELSE [db |-> [db EXCEPT !.ids[username] = {user_id}], res |-> Ok({})]

\* UPDATE users .. WHERE id (no row: nothing to update), then REPLACE INTO ids.
PersistentSetCombination(db, username, user_id, p) ==
  LET db1 == IF db.users[user_id] = {} THEN db
             ELSE [db EXCEPT !.users[user_id] = {{username}}]
  IN IF 1 \in p THEN [db |-> db, res |-> Err("Diesel")]
     ELSE IF 2 \in p THEN [db |-> db1, res |-> Err("Diesel")]
     ELSE [db |-> [db1 EXCEPT !.ids[username] = {user_id}], res |-> Ok({})]

\* user_id_for that returns the recovered id and leaves the cache alone.
HybridUserIdForNoRepair(kv, db, username, c, p) ==
  LET cr == CacheUserIdFor(kv, username, c, 1)
      pr == IF cr.ok THEN NoCall ELSE PersistentUserIdFor(db, username, p)
  IN [kv |-> kv, db |-> db, cres |-> cr, pres |-> pr, rep |-> NoCall,
      res |-> IF cr.ok THEN cr ELSE pr]

HybridUserIdFor(kv, db, username, c, p) ==
  LET cr == CacheUserIdFor(kv, username, c, 1)
      pr == IF cr.ok THEN NoCall ELSE PersistentUserIdFor(db, username, p)
      rp == IF cr.ok \/ ~pr.ok \/ pr.val = {} THEN [kv |-> kv, res |-> NoCall]
            ELSE CacheSetCombination(kv, username, The(pr.val), c, 2)
  IN [kv |-> rp.kv, db |-> db, cres |-> cr, pres |-> pr, rep |-> rp.res,
      res |-> IF cr.ok THEN cr
              ELSE IF ~pr.ok THEN pr
              ELSE IF pr.val = {} THEN Ok({})
              ELSE And(rp.res, Ok(pr.val))]

HybridUsernameFor(kv, db, user_id, c, p) ==
  LET cr == CacheUsernameFor(kv, user_id, c, 1)
      pr == IF cr.ok THEN NoCall ELSE PersistentUsernameFor(db, user_id, p)
      rp == IF cr.ok \/ ~pr.ok \/ pr.val = {} THEN [kv |-> kv, res |-> NoCall]
            ELSE CacheSetCombination(kv, The(pr.val), user_id, c, 2)
  IN [kv |-> rp.kv, db |-> db, cres |-> cr, pres |-> pr, rep |-> rp.res,
      res |-> IF cr.ok THEN cr
              ELSE IF ~pr.ok THEN pr
              ELSE IF pr.val = {} THEN Ok({})
              ELSE And(rp.res, Ok(pr.val))]

HybridSetCombination(kv, db, username, user_id, c, p) ==
  LET cr == CacheSetCombination(kv, username, user_id, c, 1)
      pr == PersistentSetCombination(db, username, user_id, p)
  IN [kv |-> cr.kv, db |-> pr.db, cres |-> cr.res, pres |-> pr.res,
      rep |-> NoCall, res |-> And(cr.res, pr.res)]

\* ------------------------------------------------------------------ state
BansKv == [banned |-> cBanned, addr |-> cBannedAddr]
NamesKv == [uid |-> cUserId, uname |-> cUsername]
NamesDb == [users |-> pUsers, ids |-> pIds]

NoArg == [none |-> TRUE]
Idle ==
  [op |-> "idle", arg |-> NoArg, c |-> {}, p |-> {}, pre |-> NoArg,
   cres |-> NoCall, pres |-> NoCall, rep |-> NoCall, res |-> NoCall]

\* A call as the caller sees it: operation, arguments, the failures drawn,
\* the stores before the call (pre) and what each tier and the call returned.
Call(op, arg, c, p, pre, r) ==
  [op |-> op, arg |-> arg, c |-> c, p |-> p, pre |-> pre,
   cres |-> r.cres, pres |-> r.pres, rep |-> r.rep, res |-> r.res]

\* The request-handling tasks that call the providers at the same time, each
\* with a Hybrid of its own over the two shared stores.
Workers == {1, 2}

\* A worker's call: operation, arguments, failures drawn, the commands (ck)
\* and statements (pk) issued so far, the row its last SELECT returned and
\* what each tier and the call returned; raced tells that the call began
\* while another worker's call was under way.
IdleWorker ==
  [op |-> "idle", arg |-> NoArg, c |-> {}, p |-> {}, ck |-> 0, pk |-> 0,
   old |-> {}, cres |-> NoCall, pres |-> NoCall, res |-> NoCall,
   raced |-> FALSE]

\* Both stores start empty, but for table users, whose rows the user
\* registration (another module) inserts, with a NULL username.
Init ==
  /\ family \in Families
  /\ now = 0
  /\ cBanned = [u \in Users |-> {}]
  /\ cBannedAddr = [a \in Addrs |-> {}]
  /\ cMuted = [u \in Users |-> {}]
  /\ cRoles = [u \in Users |-> {}]
  /\ cUserId = [n \in Names |-> {}]
  /\ cUsername = [u \in Users |-> {}]
  /\ pBans = [u \in Users |-> {}]
  /\ pMutes = [u \in Users |-> {}]
  /\ pRoles = [u \in Users |-> {}]
  /\ pUsers \in [Users -> {{}, {{}}}]
  /\ (family # "names" => pUsers = [u \in Users |-> {}])
  /\ pIds = [n \in Names |-> {}]
  /\ last = Idle
  /\ nops = 0
  /\ workers = [w \in Workers |-> IdleWorker]

\* A caller makes up to MaxOps calls; the role calls, cheap to explore, get
\* one more, which the cases where the tiers disagree on a role list need.
CanCall ==
  last.op = "idle" /\ nops < (IF family = "roles" THEN MaxOps + 1 ELSE MaxOps)

\* The caller takes the result.
Return ==
  /\ last.op # "idle"
  /\ last' = Idle
  /\ UNCHANGED <<family, workers, now, banVars, muteVars, roleVars, nameVars, nops>>

\* Time passes between calls.
Tick ==
  /\ last.op = "idle"
  /\ family \in {"bans", "mutes"}
  /\ now < MaxTime
  /\ now' = now + 1
  /\ UNCHANGED <<family, workers, banVars, muteVars, roleVars, nameVars, last, nops>>

\* ------------------------------------------------------------ ban actions
\* Another client of the same redis leaves bytes that are no Ban / no Mute
\* under a key of this program.
ForeignBanWrite ==
  /\ CanCall /\ family = "bans"
  /\ \/ \E u \in Users :
          cBanned' = [cBanned EXCEPT ![u] = {Junk}] /\ UNCHANGED cBannedAddr
     \/ \E a \in Addrs :
          cBannedAddr' = [cBannedAddr EXCEPT ![a] = {Junk}] /\ UNCHANGED cBanned
  /\ nops' = nops + 1
  /\ UNCHANGED <<family, workers, now, pBans, muteVars, roleVars, nameVars, last>>

BansPre == [kv |-> BansKv, tbl |-> pBans]

SetBanned ==
  /\ CanCall /\ family = "bans"
  /\ \E u \in Users, banned \in BOOLEAN, d \in OptDurations, ip \in OptAddrs,
        c \in Faults(2), p \in Faults(3), tp \in now..MaxTime :
       /\ ~banned => (d = {} /\ tp = now /\ 3 \notin p)
       /\ ip = {} => 2 \notin c
       /\ tp <= now + 1
       /\ LET r == HybridSetBanned(BansKv, pBans, u, banned, d, ip, c, p, now, tp)
          IN /\ cBanned' = r.kv.banned
             /\ cBannedAddr' = r.kv.addr
             /\ pBans' = r.tbl
             /\ last' = Call("set_banned",
                             [user_id |-> u, banned |-> banned, duration |-> d, ip |-> ip],
                             c, p, BansPre, r)
             /\ now' = tp
  /\ nops' = nops + 1
  /\ UNCHANGED <<family, workers, muteVars, roleVars, nameVars>>

\* The caller stamps the record: at the time of the call, or in the past.
RegisterBan ==
  /\ CanCall /\ family = "bans"
  /\ \E u \in Users, d \in OptDurations, ip \in OptAddrs, t \in {0, now},
        c \in Faults(2), p \in Faults(2) :
       /\ ip = {} => 2 \notin c
       /\ LET ban == NewBan(u, d, t, ip)
              r == HybridRegisterBan(BansKv, pBans, ban, c, p)
          IN /\ cBanned' = r.kv.banned
             /\ cBannedAddr' = r.kv.addr
             /\ pBans' = r.tbl
             /\ last' = Call("register_ban", [ban |-> ban], c, p, BansPre, r)
  /\ nops' = nops + 1
  /\ UNCHANGED <<family, workers, now, muteVars, roleVars, nameVars>>

BanQueries == {<<"id", u>> : u \in Users} \cup {<<"addr", a>> : a \in Addrs}

\* get_ban that stores in the cache the ban it recovered by id.
GetBanRepopulating ==
  /\ CanCall /\ family = "bans"
  /\ \E q \in BanQueries, c \in Faults(1), p \in Faults(1) :
       LET r == HybridGetBan(BansKv, pBans, q, c, p)
       IN /\ last' = Call("get_ban", [query |-> q], c, p, BansPre, r)
          /\ cBanned' = IF r.pres # NoCall /\ r.pres.ok /\ r.pres.val # {}
                        THEN [cBanned EXCEPT ![The(r.pres.val).user_id] =
                                {BanToJson(The(r.pres.val))}]
                        ELSE cBanned
  /\ nops' = nops + 1
  /\ UNCHANGED <<family, workers, now, cBannedAddr, pBans, muteVars, roleVars,
                 nameVars>>

GetBan ==
  /\ CanCall /\ family = "bans"
  /\ \E q \in BanQueries, c \in Faults(1), p \in Faults(1) :
       last' = Call("get_ban", [query |-> q], c, p, BansPre,
                    HybridGetBan(BansKv, pBans, q, c, p))
  /\ nops' = nops + 1
  /\ UNCHANGED <<family, workers, now, banVars, muteVars, roleVars, nameVars>>

IsBanned ==
  /\ CanCall /\ family = "bans"
  /\ \E q \in BanQueries, c \in Faults(1), p \in Faults(1) :
       last' = Call("is_banned", [query |-> q], c, p, BansPre,
                    HybridIsBanned(BansKv, pBans, q, c, p, now))
  /\ nops' = nops + 1
  /\ UNCHANGED <<family, workers, now, banVars, muteVars, roleVars, nameVars>>

\* ----------------------------------------------------------- mute actions
ForeignMuteWrite ==
  /\ CanCall /\ family = "mutes"
  /\ \E u \in Users : cMuted' = [cMuted EXCEPT ![u] = {Junk}]
  /\ nops' = nops + 1
  /\ UNCHANGED <<family, workers, now, pMutes, banVars, roleVars, nameVars, last>>

MutesPre == [kv |-> cMuted, tbl |-> pMutes]

SetMuted ==
  /\ CanCall /\ family = "mutes"
  /\ \E u \in Users, muted \in BOOLEAN, d \in OptDurations, asBytes \in BOOLEAN,
        c \in Faults(2), p \in Faults(3), tp \in now..MaxTime :
       /\ ~muted => (d = {} /\ tp = now /\ asBytes /\ 3 \notin p)
       /\ muted => 2 \notin c
       /\ tp <= now + 1
       /\ LET r == HybridSetMuted(cMuted, pMutes, u, muted, d, c, p, asBytes, now, tp)
          IN /\ cMuted' = r.kv
             /\ pMutes' = r.tbl
             /\ last' = Call("set_muted",
                             [user_id |-> u, muted |-> muted, duration |-> d],
                             c, p, MutesPre, r)
             /\ now' = tp
  /\ nops' = nops + 1
  /\ UNCHANGED <<family, workers, banVars, roleVars, nameVars>>

RegisterMute ==
  /\ CanCall /\ family = "mutes"
  /\ \E u \in Users, d \in Durations, t \in {0, now}, asBytes \in BOOLEAN,
        c \in Faults(1), p \in Faults(2) :
       LET mute == NewMute(u, d, t)
           r == HybridRegisterMute(cMuted, pMutes, mute, c, p, asBytes)
       IN /\ cMuted' = r.kv
          /\ pMutes' = r.tbl
          /\ last' = Call("register_mute", [mute |-> mute], c, p, MutesPre, r)
  /\ nops' = nops + 1
  /\ UNCHANGED <<family, workers, now, banVars, roleVars, nameVars>>

GetMute ==
  /\ CanCall /\ family = "mutes"
  /\ \E u \in Users, c \in Faults(1), p \in Faults(1) :
       last' = Call("get_mute", [user_id |-> u], c, p, MutesPre,
                    HybridGetMute(cMuted, pMutes, u, c, p))
  /\ nops' = nops + 1
  /\ UNCHANGED <<family, workers, now, banVars, muteVars, roleVars, nameVars>>

IsMuted ==
  /\ CanCall /\ family = "mutes"
  /\ \E u \in Users, c \in Faults(1), p \in Faults(1) :
       last' = Call("is_muted", [user_id |-> u], c, p, MutesPre,
                    HybridIsMuted(cMuted, pMutes, u, c, p, now))
  /\ nops' = nops + 1
  /\ UNCHANGED <<family, workers, now, banVars, muteVars, roleVars, nameVars>>

\* ----------------------------------------------------------- role actions
\* The roles callers name in this model, and the lists give_roles is given.
RoleInputs == {"Moderator", "Bot"}
RoleLists == {{}, {"Moderator"}, {"Moderator", "Bot"}}

RolesPre == [kv |-> cRoles, tbl |-> pRoles]

HasRole ==
  /\ CanCall /\ family = "roles"
  /\ \E u \in Users, role \in RoleInputs, c \in ReadFaults, p \in Faults(1) :
       LET r == HybridHasRole(cRoles, pRoles, u, role, c, p)
       IN /\ cRoles' = r.kv
          /\ last' = Call("has_role", [user_id |-> u, role |-> role], c, p, RolesPre, r)
  /\ nops' = nops + 1
  /\ UNCHANGED <<family, workers, now, pRoles, banVars, muteVars, nameVars>>

GiveRole ==
  /\ CanCall /\ family = "roles"
  /\ \E u \in Users, role \in RoleInputs, c \in Faults(1), p \in Faults(1) :
       LET r == HybridGiveRole(cRoles, pRoles, u, role, c, p)
       IN /\ cRoles' = r.kv
          /\ pRoles' = r.tbl
          /\ last' = Call("give_role", [user_id |-> u, role |-> role], c, p, RolesPre, r)
  /\ nops' = nops + 1
  /\ UNCHANGED <<family, workers, now, banVars, muteVars, nameVars>>

GiveRoles ==
  /\ CanCall /\ family = "roles"
  /\ \E u \in Users, roles \in RoleLists, c \in Faults(1), p \in Faults(1) :
       LET r == HybridGiveRoles(cRoles, pRoles, u, roles, c, p)
       IN /\ cRoles' = r.kv
          /\ pRoles' = r.tbl
          /\ last' = Call("give_roles", [user_id |-> u, roles |-> roles], c, p, RolesPre, r)
  /\ nops' = nops + 1
  /\ UNCHANGED <<family, workers, now, banVars, muteVars, nameVars>>

RemoveRole ==
  /\ CanCall /\ family = "roles"
  /\ \E u \in Users, role \in RoleInputs, c \in Faults(1), p \in Faults(1) :
       LET r == HybridRemoveRole(cRoles, pRoles, u, role, c, p)
       IN /\ cRoles' = r.kv
          /\ pRoles' = r.tbl
          /\ last' = Call("remove_role", [user_id |-> u, role |-> role], c, p, RolesPre, r)
  /\ nops' = nops + 1
  /\ UNCHANGED <<family, workers, now, banVars, muteVars, nameVars>>

PurgeRoles ==
  /\ CanCall /\ family = "roles"
  /\ \E u \in Users, c \in Faults(2), p \in Faults(2) :
       LET r == HybridPurgeRoles(cRoles, pRoles, u, c, p)
       IN /\ cRoles' = r.kv
          /\ pRoles' = r.tbl
          /\ last' = Call("purge_roles", [user_id |-> u], c, p, RolesPre, r)
  /\ nops' = nops + 1
  /\ UNCHANGED <<family, workers, now, banVars, muteVars, nameVars>>

RolesForUser ==
  /\ CanCall /\ family = "roles"
  /\ \E u \in Users, c \in ReadFaults, p \in Faults(1) :
       LET r == HybridRolesForUser(cRoles, pRoles, u, c, p)
       IN /\ cRoles' = r.kv
          /\ last' = Call("roles_for_user", [user_id |-> u], c, p, RolesPre, r)
  /\ nops' = nops + 1
  /\ UNCHANGED <<family, workers, now, pRoles, banVars, muteVars, nameVars>>

\* ----------------------------------------------------------- name actions
NamesPre == [kv |-> NamesKv, tbl |-> NamesDb]

SetCombination ==
  /\ CanCall /\ family = "names"
  /\ \E n \in Names, u \in Users, c \in Faults(1), p \in Faults(2) :
       LET r == HybridSetCombination(NamesKv, NamesDb, n, u, c, p)
       IN /\ cUserId' = r.kv.uid
          /\ cUsername' = r.kv.uname
          /\ pUsers' = r.db.users
          /\ pIds' = r.db.ids
          /\ last' = Call("set_combination", [username |-> n, user_id |-> u],
                          c, p, NamesPre, r)
  /\ nops' = nops + 1
  /\ UNCHANGED <<family, workers, now, banVars, muteVars, roleVars>>

UserIdFor ==
  /\ CanCall /\ family = "names"
  /\ \E n \in Names, c \in ReadFaults, p \in Faults(1) :
       LET r == HybridUserIdFor(NamesKv, NamesDb, n, c, p)
       IN /\ cUserId' = r.kv.uid
          /\ cUsername' = r.kv.uname
          /\ last' = Call("user_id_for", [username |-> n], c, p, NamesPre, r)
  /\ nops' = nops + 1
  /\ UNCHANGED <<family, workers, now, pUsers, pIds, banVars, muteVars, roleVars>>

UsernameFor ==
  /\ CanCall /\ family = "names"
  /\ \E u \in Users, c \in ReadFaults, p \in Faults(1) :
       LET r == HybridUsernameFor(NamesKv, NamesDb, u, c, p)
       IN /\ cUserId' = r.kv.uid
          /\ cUsername' = r.kv.uname
          /\ last' = Call("username_for", [user_id |-> u], c, p, NamesPre, r)
  /\ nops' = nops + 1
  /\ UNCHANGED <<family, workers, now, pUsers, pIds, banVars, muteVars, roleVars>>

\* ---------------------------------------------------------- specifications
NextBans ==
  SetBanned \/ RegisterBan \/ GetBan \/ IsBanned \/ ForeignBanWrite \/ Tick \/ Return

NextMutes ==
  SetMuted \/ RegisterMute \/ GetMute \/ IsMuted \/ ForeignMuteWrite \/ Tick \/ Return

NextRoles ==
  HasRole \/ GiveRole \/ GiveRoles \/ RemoveRole \/ PurgeRoles \/ RolesForUser \/ Return

NextNames == SetCombination \/ UserIdFor \/ UsernameFor \/ Return

Next ==
  \/ SetBanned \/ RegisterBan \/ GetBan \/ IsBanned \/ ForeignBanWrite
  \/ SetMuted \/ RegisterMute \/ GetMute \/ IsMuted \/ ForeignMuteWrite
  \/ HasRole \/ GiveRole \/ GiveRoles \/ RemoveRole \/ PurgeRoles \/ RolesForUser
  \/ SetCombination \/ UserIdFor \/ UsernameFor
  \/ Tick \/ Return

Spec == Init /\ [][Next]_vars
InitBans == Init /\ family = "bans"
SpecBans == InitBans /\ [][NextBans]_vars
InitMutes == Init /\ family = "mutes"
SpecMutes == InitMutes /\ [][NextMutes]_vars
InitRoles == Init /\ family = "roles"
SpecRoles == InitRoles /\ [][NextRoles]_vars
InitNames == Init /\ family = "names"
SpecNames == InitNames /\ [][NextNames]_vars

\* ------------------------------------------------------ concurrent workers
\* Each worker runs one Hybrid write at a time against the shared stores.  A
\* step is one redis command or one SQL statement: the stores run each of
\* them in one piece and order them freely between workers.  Every worker
\* makes one call, and the clock stands still while the calls race.

\* Which tier a worker's call turns to next: Result::and evaluates its
\* receiver, the cache call, to the end and then its argument, the
\* persistent call, whatever the cache returned.
TurnPersistentFirst(w) ==
  IF w.op = "idle" THEN "idle"
  ELSE IF w.pres = NoCall THEN "persistent"
  ELSE IF w.cres = NoCall THEN "cache"
  ELSE "done"

Turn(w) ==
  IF w.op = "idle" THEN "idle"
  ELSE IF w.cres = NoCall THEN "cache"
  ELSE IF w.pres = NoCall THEN "persistent"
  ELSE "done"

\* a.and(b), once both tiers have returned.
Settle(w) ==
  IF w.cres # NoCall /\ w.pres # NoCall
  THEN [w EXCEPT !.res = And(w.cres, w.pres)] ELSE w

\* The record a ban call writes: the caller's, or the one set_banned makes.
WorkerBan(w, t) ==
  IF w.op = "register_ban" THEN w.arg.ban
  ELSE NewBan(w.arg.user_id, w.arg.duration, t, w.arg.ip)

\* The next redis command of Cache::register_ban / Cache::set_banned:
\* SET or DEL banned_addr::<ip> if an address was given, then GETSET or DEL
\* banned::<id>, whose reply is the call's result.
CacheBanStep(kv, w, t) ==
  LET k == w.ck + 1
      ban == WorkerBan(w, t)
      prev == kv.banned[ban.user_id]
      unban == w.op = "set_banned" /\ ~w.arg.banned
      bytes == IF unban THEN {} ELSE {BanToJson(ban)}
  IN IF k \in w.c
     THEN [kv |-> kv, w |-> [w EXCEPT !.ck = k, !.cres = Err("Redis")]]
     ELSE IF ban.ip # {} /\ k = 1
     THEN [kv |-> [kv EXCEPT !.addr[The(ban.ip)] = bytes],
           w |-> [w EXCEPT !.ck = k]]
     ELSE [kv |-> [kv EXCEPT !.banned[ban.user_id] = bytes],
           w |-> [w EXCEPT !.ck = k, !.cres =
                    IF unban THEN Ok(prev # {})
                    ELSE IF w.op = "register_ban" THEN Ok(BanReply(prev))
                    ELSE Ok(BanReply(prev) # {}
                            /\ BanActive(The(BanReply(prev)), t))]]

\* The persistent call with INSERT in the place of REPLACE: a duplicate key
\* is refused.
PersistentBanStepInsert(tbl, w, t) ==
  LET k == w.pk + 1
      ban == WorkerBan(w, t)
      u == ban.user_id
      unban == w.op = "set_banned" /\ ~w.arg.banned
      n == IF w.op = "set_banned" /\ w.arg.banned THEN 3 ELSE 2
  IN IF k \in w.p \/ (k = n /\ ~unban /\ tbl[u] # {})
     THEN [tbl |-> tbl, w |-> [w EXCEPT !.pk = k, !.pres = Err("Diesel")]]
     ELSE IF k < n
     THEN [tbl |-> tbl, w |-> [w EXCEPT !.pk = k, !.old = tbl[u]]]
     ELSE [tbl |-> [tbl EXCEPT ![u] = IF unban THEN {} ELSE {ban}],
           w |-> [w EXCEPT !.pk = k, !.pres =
                    IF w.op = "register_ban" THEN Ok(w.old)
                    ELSE Ok(w.old # {} /\ BanActive(The(w.old), t))]]

\* The next SQL statement (of n) of the persistent call: register_ban
\* SELECTs and REPLACEs, set_banned(true) SELECTs and then calls
\* register_ban, set_banned(false) SELECTs and DELETEs.
PersistentBanStep(tbl, w, t) ==
  LET k == w.pk + 1
      ban == WorkerBan(w, t)
      u == ban.user_id
      unban == w.op = "set_banned" /\ ~w.arg.banned
      n == IF w.op = "set_banned" /\ w.arg.banned THEN 3 ELSE 2
  IN IF k \in w.p
     THEN [tbl |-> tbl, w |-> [w EXCEPT !.pk = k, !.pres = Err("Diesel")]]
     ELSE IF k < n
     THEN [tbl |-> tbl, w |-> [w EXCEPT !.pk = k, !.old = tbl[u]]]
     ELSE [tbl |-> [tbl EXCEPT ![u] = IF unban THEN {} ELSE {ban}],
           w |-> [w EXCEPT !.pk = k, !.pres =
                    IF w.op = "register_ban" THEN Ok(w.old)
                    ELSE Ok(w.old # {} /\ BanActive(The(w.old), t))]]

\* Cache::give_role is the one command SADD roles::<id> <role>;
\* Cache::purge_roles is SMEMBERS, then DEL, and returns what SMEMBERS read.
CacheRoleStep(kv, w) ==
  LET k == w.ck + 1
      u == w.arg.user_id
      r == CacheGiveRole(kv, u, w.arg.role, w.c, 1)
  IN IF w.op = "give_role"
     THEN [kv |-> r.kv, w |-> [w EXCEPT !.ck = 1, !.cres = r.res]]
     ELSE IF k \in w.c
     THEN [kv |-> kv, w |-> [w EXCEPT !.ck = k, !.cres = Err("Redis")]]
     ELSE IF k = 1
     THEN [kv |-> kv,
           w |-> [w EXCEPT !.ck = k, !.old = CacheRolesForUser(kv, u, {}, 1).val]]
     ELSE [kv |-> [kv EXCEPT ![u] = {}],
           w |-> [w EXCEPT !.ck = k, !.cres = Ok(w.old)]]

\* Persistent::give_role is the one statement IF EXISTS .. UPDATE .. ELSE
\* INSERT; Persistent::purge_roles is a SELECT, then a DELETE, and returns
\* what the SELECT read.
PersistentRoleStep(tbl, w) ==
  LET k == w.pk + 1
      u == w.arg.user_id
      r == PersistentGiveRole(tbl, u, w.arg.role, w.p)
  IN IF w.op = "give_role"
     THEN [tbl |-> r.tbl, w |-> [w EXCEPT !.pk = 1, !.pres = r.res]]
     ELSE IF k \in w.p
     THEN [tbl |-> tbl, w |-> [w EXCEPT !.pk = k, !.pres = Err("Diesel")]]
     ELSE IF k = 1
     THEN [tbl |-> tbl,
           w |-> [w EXCEPT !.pk = k, !.old = PersistentRolesForUser(tbl, u, {}, 1).val]]
     ELSE [tbl |-> [tbl EXCEPT ![u] = {}],
           w |-> [w EXCEPT !.pk = k, !.pres = Ok(w.old)]]

\* Cache::set_combination is the one command MSET of both keys.
CacheNameStep(kv, w) ==
  LET r == CacheSetCombination(kv, w.arg.username, w.arg.user_id, w.c, 1)
  IN [kv |-> r.kv, w |-> [w EXCEPT !.ck = 1, !.cres = r.res]]

\* Persistent::set_combination: UPDATE users, then REPLACE INTO ids.
PersistentNameStep(db, w) ==
  LET k == w.pk + 1
      n == w.arg.username
      u == w.arg.user_id
  IN IF k \in w.p
     THEN [db |-> db, w |-> [w EXCEPT !.pk = k, !.pres = Err("Diesel")]]
     ELSE IF k = 1
     THEN [db |-> IF db.users[u] = {} THEN db
                  ELSE [db EXCEPT !.users[u] = {{n}}],
           w |-> [w EXCEPT !.pk = k]]
     ELSE [db |-> [db EXCEPT !.ids[n] = {u}],
           w |-> [w EXCEPT !.pk = k, !.pres = Ok({})]]

\* Worker i, idle so far, takes up a call.
Begun(i, op, arg, c, p) ==
  [workers EXCEPT ![i] =
     [IdleWorker EXCEPT !.op = op, !.arg = arg, !.c = c, !.p = p,
                        !.raced = \E j \in Workers \ {i} :
                                    Turn(workers[j]) \in {"cache", "persistent"}]]

BeginRegisterBan(i) ==
  /\ workers[i].op = "idle" /\ family = "bans"
  /\ \E u \in Users, d \in OptDurations, ip \in OptAddrs,
        c \in Faults(2), p \in Faults(2) :
       /\ ip = {} => 2 \notin c
       /\ workers' = Begun(i, "register_ban", [ban |-> NewBan(u, d, now, ip)], c, p)
  /\ UNCHANGED <<family, now, banVars, muteVars, roleVars, nameVars, last, nops>>

BeginSetBanned(i) ==
  /\ workers[i].op = "idle" /\ family = "bans"
  /\ \E u \in Users, banned \in BOOLEAN, d \in OptDurations, ip \in OptAddrs,
        c \in Faults(2), p \in Faults(2) :
       /\ ~banned => d = {}
       /\ ip = {} => 2 \notin c
       /\ workers' = Begun(i, "set_banned",
                        [user_id |-> u, banned |-> banned, duration |-> d, ip |-> ip],
                        c, p)
  /\ UNCHANGED <<family, now, banVars, muteVars, roleVars, nameVars, last, nops>>

BeginGiveRole(i) ==
  /\ workers[i].op = "idle" /\ family = "roles"
  /\ \E u \in Users, r \in Roles, c \in Faults(1), p \in Faults(1) :
       workers' = Begun(i, "give_role", [user_id |-> u, role |-> r], c, p)
  /\ UNCHANGED <<family, now, banVars, muteVars, roleVars, nameVars, last, nops>>

BeginPurgeRoles(i) ==
  /\ workers[i].op = "idle" /\ family = "roles"
  /\ \E u \in Users, c \in Faults(2), p \in Faults(2) :
       workers' = Begun(i, "purge_roles", [user_id |-> u, role |-> "none"], c, p)
  /\ UNCHANGED <<family, now, banVars, muteVars, roleVars, nameVars, last, nops>>

BeginSetCombination(i) ==
  /\ workers[i].op = "idle" /\ family = "names"
  /\ \E n \in Names, u \in Users, c \in Faults(1), p \in Faults(2) :
       workers' = Begun(i, "set_combination", [username |-> n, user_id |-> u], c, p)
  /\ UNCHANGED <<family, now, banVars, muteVars, roleVars, nameVars, last, nops>>

CacheBans(i) ==
  /\ family = "bans" /\ Turn(workers[i]) = "cache"
  /\ LET r == CacheBanStep(BansKv, workers[i], now)
     IN /\ cBanned' = r.kv.banned
        /\ cBannedAddr' = r.kv.addr
        /\ workers' = [workers EXCEPT ![i] = Settle(r.w)]
  /\ UNCHANGED <<family, now, pBans, muteVars, roleVars, nameVars, last, nops>>

PersistentBans(i) ==
  /\ family = "bans" /\ Turn(workers[i]) = "persistent"
  /\ LET r == PersistentBanStep(pBans, workers[i], now)
     IN /\ pBans' = r.tbl
        /\ workers' = [workers EXCEPT ![i] = Settle(r.w)]
  /\ UNCHANGED <<family, now, cBanned, cBannedAddr, muteVars, roleVars,
                 nameVars, last, nops>>

CacheRoles(i) ==
  /\ family = "roles" /\ Turn(workers[i]) = "cache"
  /\ LET r == CacheRoleStep(cRoles, workers[i])
     IN /\ cRoles' = r.kv
        /\ workers' = [workers EXCEPT ![i] = Settle(r.w)]
  /\ UNCHANGED <<family, now, pRoles, banVars, muteVars, nameVars, last, nops>>

PersistentRoles(i) ==
  /\ family = "roles" /\ Turn(workers[i]) = "persistent"
  /\ LET r == PersistentRoleStep(pRoles, workers[i])
     IN /\ pRoles' = r.tbl
        /\ workers' = [workers EXCEPT ![i] = Settle(r.w)]
  /\ UNCHANGED <<family, now, cRoles, banVars, muteVars, nameVars, last, nops>>

CacheNames(i) ==
  /\ family = "names" /\ Turn(workers[i]) = "cache"
  /\ LET r == CacheNameStep(NamesKv, workers[i])
     IN /\ cUserId' = r.kv.uid
        /\ cUsername' = r.kv.uname
        /\ workers' = [workers EXCEPT ![i] = Settle(r.w)]
  /\ UNCHANGED <<family, now, pUsers, pIds, banVars, muteVars, roleVars,
                 last, nops>>

PersistentNames(i) ==
  /\ family = "names" /\ Turn(workers[i]) = "persistent"
  /\ LET r == PersistentNameStep(NamesDb, workers[i])
     IN /\ pUsers' = r.db.users
        /\ pIds' = r.db.ids
        /\ workers' = [workers EXCEPT ![i] = Settle(r.w)]
  /\ UNCHANGED <<family, now, cUserId, cUsername, banVars, muteVars, roleVars,
                 last, nops>>

NextWorkers ==
  \E i \in Workers :
    \/ BeginRegisterBan(i) \/ BeginSetBanned(i)
    \/ BeginGiveRole(i) \/ BeginPurgeRoles(i) \/ BeginSetCombination(i)
    \/ CacheBans(i) \/ PersistentBans(i)
    \/ CacheRoles(i) \/ PersistentRoles(i)
    \/ CacheNames(i) \/ PersistentNames(i)

InitWorkers == Init /\ family \in {"bans", "roles", "names"}
SpecWorkers == InitWorkers /\ [][NextWorkers]_vars

\* ------------------------------------------------------- the activity law
\* Ban::active / NewBan::active and Mute::active as functions of the record
\* and of the clock: a caller evaluates them on any record, with any
\* duration a u64 holds (here DurBits bits).
AllDurations == 0..(TwoPow(DurBits) - 1)

ActiveOfBan ==
  /\ CanCall /\ family = "bans"
  /\ \E u \in Users, t \in 0..MaxTime,
        d \in {{}} \cup {{x} : x \in AllDurations} :
       LET ban == NewBan(u, d, t, {})
       IN last' = Call("ban_active", [ban |-> ban], {}, {}, NoArg,
                       [cres |-> NoCall, pres |-> NoCall, rep |-> NoCall,
                        res |-> Ok(BanActive(ban, now))])
  /\ nops' = nops + 1
  /\ UNCHANGED <<family, workers, now, banVars, muteVars, roleVars, nameVars>>

ActiveOfMute ==
  /\ CanCall /\ family = "mutes"
  /\ \E u \in Users, t \in 0..MaxTime, d \in AllDurations :
       LET mute == NewMute(u, d, t)
       IN last' = Call("mute_active", [mute |-> mute], {}, {}, NoArg,
                       [cres |-> NoCall, pres |-> NoCall, rep |-> NoCall,
                        res |-> Ok(MuteActive(mute, now))])
  /\ nops' = nops + 1
  /\ UNCHANGED <<family, workers, now, banVars, muteVars, roleVars, nameVars>>

NextActive == ActiveOfBan \/ ActiveOfMute \/ Tick \/ Return
InitActive == Init /\ family \in {"bans", "mutes"}
SpecActive == InitActive /\ [][NextActive]_vars

\* ------------------------------------------------- successful cache writes
\* The runs in which every write's cache half succeeds, and nothing but the
\* program writes to the cache.
SetBannedInCache == SetBanned /\ last'.cres.ok
RegisterBanInCache == RegisterBan /\ last'.cres.ok
SetCombinationInCache == SetCombination /\ last'.cres.ok

NextCacheWrites ==
  SetBannedInCache \/ RegisterBanInCache \/ SetCombinationInCache \/ Tick \/ Return
InitCacheWrites == Init /\ family \in {"bans", "names"}
SpecCacheWrites == InitCacheWrites /\ [][NextCacheWrites]_vars

\* ---------------------------------------------------------- role strings
\* Strings that name no role: a variant's name as written in the enum, and
\* a shortened identifier.
ForeignStrings == {"Moderator", "admin"}

\* Another client of the same redis adds a member to a user's roles set.
ForeignRoleWrite ==
  /\ CanCall /\ family = "roles"
  /\ \E u \in Users, s \in ForeignStrings :
       cRoles' = [cRoles EXCEPT ![u] = @ \cup {s}]
  /\ nops' = nops + 1
  /\ UNCHANGED <<family, workers, now, pRoles, banVars, muteVars, nameVars, last>>

NextRoleStrings == ForeignRoleWrite \/ GiveRole \/ RolesForUser \/ Return
SpecRoleStrings == InitRoles /\ [][NextRoleStrings]_vars

\* ================================================================= claims
WriteOps ==
  {"set_banned", "register_ban", "set_muted", "register_mute", "give_role",
   "give_roles", "remove_role", "purge_roles", "set_combination"}

\* C1: a Hybrid write (set_banned, register_ban, set_muted, register_mute,
\* give_role, give_roles, remove_role, purge_roles, set_combination) returns
\* Ok only if the cache-tier write and the persistent-tier write both
\* returned Ok, whatever commands and statements failed.
C1_OkOnlyIfBothTiersOk ==
  (last.op \in WriteOps /\ last.res.ok) => (last.cres.ok /\ last.pres.ok)

\* set_banned(.., true, ..) returned Ok(true): both tiers replaced a ban that
\* was still active.
C1_Witness == last.op = "set_banned" /\ last.arg.banned /\ last.res = Ok(TRUE)

\* C2: after Hybrid::register_ban(b) returned Ok and before any other write,
\* Cache::get_ban(Id(b.user_id)) and Persistent::get_ban(Id(b.user_id)), each
\* asked on its own, return a record with b's user_id and b's duration.
C2_RegisteredBanInBothTiers ==
  (last.op = "register_ban" /\ last.res.ok) =>
    LET b == last.arg.ban
        cr == CacheGetBan(BansKv, <<"id", b.user_id>>, {})
        pr == PersistentGetBan(pBans, <<"id", b.user_id>>, {}, 1)
    IN /\ cr.ok /\ cr.val # {}
       /\ The(cr.val).user_id = b.user_id /\ The(cr.val).duration = b.duration
       /\ pr.ok /\ pr.val # {}
       /\ The(pr.val).user_id = b.user_id /\ The(pr.val).duration = b.duration

\* register_ban returned Ok(Some(old)): the ban replaced one of another
\* duration.
C2_Witness ==
  /\ last.op = "register_ban" /\ last.res.ok
  /\ last.res.val # {}
  /\ The(last.res.val).duration # last.arg.ban.duration

\* C3: with every cache call failing, Hybrid::is_muted(id) for a user whose
\* active mute is in the persistent tier only returns Ok(true), which is what
\* Persistent::is_muted(id) returns.
C3_Case ==
  /\ last.op = "is_muted"
  /\ 1 \in last.c /\ last.p = {}
  /\ cMuted[last.arg.user_id] = {}
  /\ pMutes[last.arg.user_id] # {}
  /\ MuteActive(The(pMutes[last.arg.user_id]), now)

C3_FallbackIsMuted ==
  C3_Case =>
    /\ last.res = Ok(TRUE)
    /\ last.res = PersistentIsMuted(pMutes, last.arg.user_id, {}, now)

C3_Witness == C3_Case /\ last.res.ok

\* C4: Hybrid::is_banned and Hybrid::is_muted return the cache's answer
\* whenever the cache call returned Ok, Ok(false) for an absent record
\* included, and then never ask the persistent tier; the persistent tier is
\* asked only when the cache call returned an error.
C4_CacheAnswerTrusted ==
  last.op \in {"is_banned", "is_muted"} =>
    /\ last.cres.ok => (last.res = last.cres /\ last.pres = NoCall)
    /\ last.pres # NoCall => ~last.cres.ok
    /\ ~last.cres.ok => last.pres # NoCall

\* The cache holds no record, the database holds an active ban, and the
\* caller is told Ok(false).
C4_Witness ==
  /\ last.op = "is_banned" /\ last.arg.query[1] = "id"
  /\ cBanned[last.arg.query[2]] = {}
  /\ PersistentIsBanned(pBans, last.arg.query, {}, now) = Ok(TRUE)
  /\ last.res = Ok(FALSE)

\* ---- C5
C5_Ops == {"get_ban", "get_mute", "user_id_for", "username_for"}

\* What the persistent tier held for the key of the read in `last`.
C5_PersistentRecord ==
  CASE last.op = "get_ban" -> PersistentGetBan(last.pre.tbl, last.arg.query, {}, 1).val
    [] last.op = "get_mute" -> last.pre.tbl[last.arg.user_id]
    [] last.op = "user_id_for" -> last.pre.tbl.ids[last.arg.username]
    [] last.op = "username_for" ->
         IF last.pre.tbl.users[last.arg.user_id] = {} THEN {}
         ELSE The(last.pre.tbl.users[last.arg.user_id])

\* What the cache answers for the same key now, asked on its own.
C5_CacheRecord ==
  CASE last.op = "get_ban" -> CacheGetBan(BansKv, last.arg.query, {}).val
    [] last.op = "get_mute" -> CacheGetMute(cMuted, last.arg.user_id, {}, 1).val
    [] last.op = "user_id_for" -> cUserId[last.arg.username]
    [] last.op = "username_for" -> cUsername[last.arg.user_id]

C5_CacheNow ==
  CASE last.op = "get_ban" -> BansKv
    [] last.op = "get_mute" -> cMuted
    [] OTHER -> NamesKv

C5_Miss ==
  /\ last.op \in C5_Ops
  /\ last.c = {} /\ last.p = {}
  /\ last.cres = Ok({})
  /\ C5_PersistentRecord # {}

\* C5 as stated: a Hybrid read falls back to the persistent tier on a cache
\* miss as well: when the cache answers Ok with no record and the persistent
\* tier holds one, get_ban / get_mute / user_id_for / username_for return the
\* persistent tier's record and the cache is repopulated with it.
C5_FallbackOnMiss ==
  C5_Miss => (last.res = Ok(C5_PersistentRecord) /\ C5_CacheRecord = C5_PersistentRecord)

\* C5 as amended: these reads go to the persistent tier only when the cache
\* call failed.  A cache answer, "no record" included, is returned as it is,
\* the persistent tier is not asked and the cache is left alone.  After a
\* cache error and a persistent answer, get_ban / get_mute return that answer
\* and write nothing to the cache; user_id_for / username_for return None for
\* an absent pair and otherwise write the pair to the cache, returning it if
\* that write succeeded and the write's error if not.
C5_FallbackOnErrorOnly ==
  last.op \in C5_Ops =>
    /\ last.cres.ok =>
         /\ last.res = last.cres
         /\ last.pres = NoCall /\ last.rep = NoCall
         /\ C5_CacheNow = last.pre.kv
    /\ ~last.cres.ok => last.pres # NoCall
    /\ (~last.cres.ok /\ ~last.pres.ok) => (last.res = last.pres /\ C5_CacheNow = last.pre.kv)
    /\ (~last.cres.ok /\ last.pres.ok) =>
         /\ last.pres.val = C5_PersistentRecord
         /\ IF last.op \in {"get_ban", "get_mute"} \/ last.pres.val = {}
            THEN last.res = last.pres /\ last.rep = NoCall /\ C5_CacheNow = last.pre.kv
            ELSE IF last.rep.ok
            THEN last.res = last.pres /\ C5_CacheRecord = C5_PersistentRecord
            ELSE last.res = last.rep /\ ~last.res.ok /\ C5_CacheNow = last.pre.kv

\* A miss in the cache while the database holds a ban: the caller gets None.
C5_Witness == C5_Miss /\ last.op = "get_ban" /\ last.res = Ok({})

\* ---- C6
C6_Ops == {"get_ban", "is_banned", "get_mute", "is_muted"}

\* The bytes under the key the read in `last` asked the cache for.
C6_Bytes ==
  IF last.op \in {"get_ban", "is_banned"}
  THEN IF last.arg.query[1] = "addr" THEN cBannedAddr[last.arg.query[2]]
       ELSE cBanned[last.arg.query[2]]
  ELSE cMuted[last.arg.user_id]

\* C6: when the bytes under a ban or mute key do not decode into a record,
\* Cache::get_ban / get_mute report a serialization error and Hybrid::get_ban
\* / is_banned / get_mute / is_muted then ask the persistent tier, as for a
\* transport error; the entry is never reported as "no record".
C6_CorruptEntryIsAnError ==
  (last.op \in C6_Ops /\ last.c = {} /\ C6_Bytes = {Junk}) =>
    /\ ~last.cres.ok /\ last.cres.err = "Serialization"
    /\ last.pres # NoCall
    /\ last.res = last.pres

\* ---- C7
C7_PersistentNow ==
  CASE family = "bans" -> pBans
    [] family = "mutes" -> pMutes
    [] family = "roles" -> pRoles
    [] family = "names" -> NamesDb

\* The cache shows the value the write in `last` was to store.
C7_CacheHoldsNew ==
  LET a == last.arg
  IN CASE last.op = "set_banned" ->
            IF a.banned
            THEN /\ BanReply(cBanned[a.user_id]) # {}
                 /\ The(BanReply(cBanned[a.user_id])).duration = a.duration
            ELSE cBanned[a.user_id] = {}
       [] last.op = "register_ban" -> cBanned[a.ban.user_id] = {BanToJson(a.ban)}
       [] last.op = "set_muted" ->
            IF a.muted
            THEN /\ MuteReply(cMuted[a.user_id]) # {}
                 /\ {The(MuteReply(cMuted[a.user_id])).duration} = a.duration
            ELSE cMuted[a.user_id] = {}
       [] last.op = "register_mute" -> cMuted[a.mute.user_id] = {MuteToJson(a.mute)}
       [] last.op = "give_role" -> RoleToStr(a.role) \in cRoles[a.user_id]
       [] last.op = "give_roles" -> \A r \in a.roles : RoleToStr(r) \in cRoles[a.user_id]
       [] last.op = "remove_role" -> RoleToStr(a.role) \notin cRoles[a.user_id]
       [] last.op = "purge_roles" -> cRoles[a.user_id] = {}
       [] last.op = "set_combination" ->
            cUserId[a.username] = {a.user_id} /\ cUsername[a.user_id] = {a.username}

\* C7: if the cache write of a Hybrid write succeeds and its persistent write
\* fails, the call returns the persistent tier's error, the cache keeps the
\* new value and the persistent tier keeps its old value.
C7_PersistentFailureKeepsOldValue ==
  (last.op \in WriteOps /\ last.cres.ok /\ ~last.pres.ok) =>
    /\ last.res = last.pres
    /\ C7_CacheHoldsNew
    /\ C7_PersistentNow = last.pre.tbl

\* The same statement without set_combination.
C7_ButSetCombination ==
  last.op # "set_combination" => C7_PersistentFailureKeepsOldValue

\* ---- C8
\* The call in `last` was given arguments both tiers accept.
C8_ValidArgs ==
  /\ last.op = "set_muted" => (last.arg.muted => last.arg.duration # {})
  /\ last.op = "give_roles" => last.arg.roles # {}

\* C8: in a Hybrid write each tier's write is attempted, once, whatever the
\* other tier did: when the cache write fails in transport and the persistent
\* tier is available, the persistent write is applied all the same, and the
\* caller gets the error of the tier that failed, the cache's when both
\* failed, never Ok.
C8_TiersIndependent ==
  (last.op \in WriteOps /\ C8_ValidArgs) =>
    /\ last.cres # NoCall /\ last.pres # NoCall
    /\ (1 \in last.c /\ last.p = {}) => (~last.cres.ok /\ last.pres.ok)
    /\ ~last.cres.ok => last.res = last.cres
    /\ (last.cres.ok /\ ~last.pres.ok) => last.res = last.pres

\* The same statement without the mute writes.
C8_ButMutes == family # "mutes" => C8_TiersIndependent

\* ---- C9
ReadOps ==
  {"get_ban", "is_banned", "get_mute", "is_muted", "has_role", "roles_for_user",
   "user_id_for", "username_for"}

\* Every command the read in `last` sent to redis failed in transport.
C9_CacheUnreachable ==
  IF last.op \in {"get_ban", "is_banned", "get_mute", "is_muted"}
  THEN last.c = {1} ELSE last.c = {1, 2}

\* C9: for every Hybrid read (get_ban, is_banned, get_mute, is_muted,
\* has_role, roles_for_user, user_id_for, username_for), if the cache is
\* unreachable and the persistent tier answers Ok, the read returns Ok with
\* the persistent tier's value.
C9_ReadSurvivesCacheOutage ==
  (last.op \in ReadOps /\ C9_CacheUnreachable /\ last.pres.ok) =>
    (last.res.ok /\ last.res = last.pres)

\* The same statement for the ban and mute reads alone.
C9_BanAndMuteReads == family \in {"bans", "mutes"} => C9_ReadSurvivesCacheOutage

\* ---- C10
\* C10: Persistent::register_ban and Persistent::register_mute are upserts
\* keyed by user_id: with the database available, registering a record for a
\* user who has a row, active or expired, succeeds, replaces the row by the
\* new record and returns the previous row; for a user with no row it
\* returns None.
C10_RegisterIsUpsert ==
  (last.op \in {"register_ban", "register_mute"} /\ last.p = {}) =>
    LET rec == IF last.op = "register_ban" THEN last.arg.ban ELSE last.arg.mute
    IN /\ last.pres = Ok(last.pre.tbl[rec.user_id])
       /\ C7_PersistentNow[rec.user_id] = {rec}

\* The same statement for register_ban alone.
C10_RegisterBanIsUpsert == last.op = "register_ban" => C10_RegisterIsUpsert

\* ---- C11
\* The bytes under the user's key before the cache write in `last`.
C11_PrevBytes ==
  CASE last.op = "set_banned" -> last.pre.kv.banned[last.arg.user_id]
    [] last.op = "register_ban" -> last.pre.kv.banned[last.arg.ban.user_id]
    [] last.op = "set_muted" -> last.pre.kv[last.arg.user_id]
    [] last.op = "register_mute" -> last.pre.kv[last.arg.mute.user_id]

\* A cache write of a record, with redis reachable and the key absent or
\* holding a record.
C11_Case ==
  /\ \/ last.op \in {"register_ban", "register_mute"}
     \/ last.op = "set_banned" /\ last.arg.banned
     \/ last.op = "set_muted" /\ last.arg.muted /\ last.arg.duration # {}
  /\ last.c = {}
  /\ C11_PrevBytes # {Junk}

\* What the claim has the cache call return.
C11_Expected ==
  CASE last.op = "register_ban" -> Ok(BanReply(C11_PrevBytes))
    [] last.op = "register_mute" -> Ok(MuteReply(C11_PrevBytes))
    [] last.op = "set_banned" ->
         Ok(C11_PrevBytes # {} /\ BanActive(The(BanReply(C11_PrevBytes)), now))
    [] last.op = "set_muted" ->
         Ok(C11_PrevBytes # {} /\ MuteActive(The(MuteReply(C11_PrevBytes)), now))

\* The previous record was absent, or is active still: its activity at the
\* time of the call is then known from the clock as it stands.
C11_Decided ==
  \/ last.op \in {"register_ban", "register_mute"}
  \/ C11_PrevBytes = {}
  \/ C11_Expected = Ok(TRUE)

\* C11: Cache::register_ban and Cache::register_mute, and set_banned /
\* set_muted with flag = true through them, store the new record and return
\* the record that was under the user's key immediately before (Some(previous)
\* / true for an active one, None / false for none).
C11_CacheGetAndSet ==
  (C11_Case /\ C11_Decided) => (C7_CacheHoldsNew /\ last.cres = C11_Expected)

\* The same statement for the ban writes alone.
C11_BanGetAndSet == family = "bans" => C11_CacheGetAndSet

\* ---- C12
\* set_banned(id, false, ..) found no ban for the user: no key banned::<id>
\* in the cache, no row in table bans.
C12_Case ==
  /\ last.op = "set_banned" /\ ~last.arg.banned
  /\ last.c = {} /\ last.p = {}
  /\ last.pre.kv.banned[last.arg.user_id] = {}
  /\ last.pre.tbl[last.arg.user_id] = {}

\* C12: in each provider (Cache, Persistent, Hybrid), set_banned(id, false, ..)
\* for a user with no ban record returns Ok(false) and leaves no record for
\* the user; the same call made again right after returns Ok(false) as well
\* and changes nothing.
C12_UnbanIdempotent ==
  C12_Case =>
    LET a == last.arg
        again == HybridSetBanned(BansKv, pBans, a.user_id, FALSE, {}, a.ip, {}, {}, now, now)
    IN /\ last.cres = Ok(FALSE) /\ last.pres = Ok(FALSE) /\ last.res = Ok(FALSE)
       /\ cBanned[a.user_id] = {} /\ pBans[a.user_id] = {}
       /\ again.cres = Ok(FALSE) /\ again.pres = Ok(FALSE) /\ again.res = Ok(FALSE)
       /\ again.kv = BansKv /\ again.tbl = pBans

\* The unban named an address under which another user's ban is cached.
C12_Witness ==
  /\ C12_Case /\ last.res = Ok(FALSE)
  /\ last.arg.ip # {}
  /\ BanReply(last.pre.kv.addr[The(last.arg.ip)]) # {}

\* ---- C13
C13_Case ==
  \/ last.op = "set_banned" /\ ~last.arg.banned
  \/ last.op = "set_muted" /\ ~last.arg.muted

C13_CachePrev ==
  IF last.op = "set_banned" THEN last.pre.kv.banned[last.arg.user_id]
  ELSE last.pre.kv[last.arg.user_id]

\* The record under the user's key was there and active when the call came.
C13_CacheWasActive ==
  /\ C13_CachePrev # {}
  /\ IF last.op = "set_banned" THEN BanActive(The(BanReply(C13_CachePrev)), now)
     ELSE MuteActive(The(MuteReply(C13_CachePrev)), now)

C13_RowWasActive ==
  /\ last.pre.tbl[last.arg.user_id] # {}
  /\ IF last.op = "set_banned" THEN BanActive(The(last.pre.tbl[last.arg.user_id]), now)
     ELSE MuteActive(The(last.pre.tbl[last.arg.user_id]), now)

\* C13: in both tiers set_banned(id, false, ..) and set_muted(id, false, ..)
\* delete the user's record and return true if and only if the record that
\* was there before the call was active; one that was there but had expired
\* yields false.
C13_UnsetReturnsWasActive ==
  C13_Case =>
    /\ (last.c = {} /\ C13_CachePrev # {Junk}) =>
         /\ last.cres = Ok(C13_CacheWasActive)
         /\ (IF last.op = "set_banned" THEN cBanned ELSE cMuted)[last.arg.user_id] = {}
    /\ last.p = {} =>
         /\ last.pres = Ok(C13_RowWasActive)
         /\ C7_PersistentNow[last.arg.user_id] = {}

\* The same statement without Cache::set_banned.
C13_ButCacheSetBanned ==
  (C13_Case /\ last.op = "set_banned") =>
    (last.p = {} => (last.pres = Ok(C13_RowWasActive) /\ pBans[last.arg.user_id] = {}))

C13_MuteUnset == last.op = "set_muted" => C13_UnsetReturnsWasActive

\* ---- C14
C14_CacheRoles(kv) == CacheRolesForUser(kv, last.arg.user_id, {}, 1).val
C14_RowRoles(tbl) == PersistentRolesForUser(tbl, last.arg.user_id, {}, 1).val

\* C14: granting a role never removes another: in each tier, the roles
\* roles_for_user lists after a give_role(user, r) that succeeded are those
\* it listed before, and r.  So for a user with no roles, give_role(user, r1)
\* then give_role(user, r2), both Ok, leave roles_for_user(user) = {r1, r2}.
C14_GrantKeepsRoles ==
  last.op = "give_role" =>
    /\ last.cres.ok =>
         C14_CacheRoles(cRoles) = C14_CacheRoles(last.pre.kv) \cup {last.arg.role}
    /\ last.pres.ok =>
         C14_RowRoles(pRoles) = C14_RowRoles(last.pre.tbl) \cup {last.arg.role}

\* The second of two grants: the user held one other role in both tiers and
\* now holds the two.
C14_Witness ==
  /\ last.op = "give_role" /\ last.res.ok
  /\ \E r1 \in Roles \ {last.arg.role} :
       /\ C14_CacheRoles(last.pre.kv) = {r1}
       /\ C14_RowRoles(last.pre.tbl) = {r1}
       /\ C14_CacheRoles(cRoles) = {r1, last.arg.role}
       /\ C14_RowRoles(pRoles) = {r1, last.arg.role}

\* ---- C18
\* A role query for a user with no set roles::<id> and no row in table roles.
C18_Case ==
  /\ last.op \in {"has_role", "roles_for_user"}
  /\ last.pre.kv[last.arg.user_id] = {}
  /\ last.pre.tbl[last.arg.user_id] = {}

C18_NoRoles == IF last.op = "has_role" THEN Ok(FALSE) ELSE Ok({})

\* C18: asking for the roles of a user who has no role entry is an error in
\* no tier: has_role returns Ok(false) for every role and roles_for_user
\* returns Ok(empty list) from Cache, from Persistent and from Hybrid, as
\* long as the stores asked are reachable.
C18_NoEntryIsNoRoles ==
  C18_Case =>
    /\ last.c = {} => last.cres = C18_NoRoles
    /\ (last.pres # NoCall /\ last.p = {}) => last.pres = C18_NoRoles
    /\ (last.p = {} /\ 2 \notin last.c) => last.res = C18_NoRoles

\* The same statement for the cache tier and for Persistent::roles_for_user.
C18_ButPersistentHasRole ==
  C18_Case =>
    /\ last.c = {} => (last.cres = C18_NoRoles /\ last.res = C18_NoRoles)
    /\ (last.op = "roles_for_user" /\ last.pres # NoCall /\ last.p = {}) =>
         last.pres = C18_NoRoles

\* ---- C19
\* Persistent::get_ban or Persistent::roles_for_user was asked, the database
\* answered, and it holds no row for the key.
C19_Case ==
  /\ last.op \in {"get_ban", "roles_for_user"}
  /\ last.pres # NoCall /\ last.p = {}
  /\ IF last.op = "roles_for_user" THEN last.pre.tbl[last.arg.user_id] = {}
     ELSE IF last.arg.query[1] = "id" THEN last.pre.tbl[last.arg.query[2]] = {}
     ELSE \A u \in Users :
            last.pre.tbl[u] = {} \/ The(last.pre.tbl[u]).ip # {last.arg.query[2]}

\* C19: Persistent::get_ban, by Id or by Address, returns Ok(None) for a user
\* or an address with no row, and Persistent::roles_for_user returns Ok(empty
\* list) for a user with no row: the store's not-found is no error.
C19_NotFoundIsNone == C19_Case => last.pres = Ok({})

\* By address, while the table holds a ban of another address or of none.
C19_Witness ==
  /\ C19_Case /\ last.op = "get_ban" /\ last.arg.query[1] = "addr"
  /\ \E u \in Users : pBans[u] # {}
  /\ last.res = Ok({})

\* ---- C20
\* A name lookup that reached the database, for a key it has no row for.
C20_Case ==
  /\ last.op \in {"user_id_for", "username_for"}
  /\ last.pres # NoCall /\ last.p = {}
  /\ IF last.op = "user_id_for" THEN last.pre.tbl.ids[last.arg.username] = {}
     ELSE last.pre.tbl.users[last.arg.user_id] = {}

\* C20: Persistent::username_for(id) for an id with no user row and
\* Persistent::user_id_for(name) for an unmapped name return Ok(None), never
\* an error, and so does Hybrid when it falls back to them.
C20_NotFoundIsNone == C20_Case => (last.pres = Ok({}) /\ last.res = Ok({}))

\* The same statement for user_id_for alone.
C20_UserIdFor == last.op = "user_id_for" => C20_NotFoundIsNone

\* ---- C15
\* Both workers called Hybrid::give_role for the same user with different
\* roles, and both calls returned Ok.
C15_Case ==
  /\ \A i \in Workers :
       workers[i].op = "give_role" /\ Turn(workers[i]) = "done" /\ workers[i].res.ok
  /\ workers[1].arg.user_id = workers[2].arg.user_id
  /\ workers[1].arg.role # workers[2].arg.role

\* C15: when two workers at the same time call Hybrid::give_role for the same
\* user with different roles and both calls return Ok, the user holds both
\* roles in the cache and in the persistent tier afterwards, however the
\* commands of the two calls were ordered.
C15_BothGrantsKept ==
  C15_Case =>
    LET u == workers[1].arg.user_id
        both == {workers[i].arg.role : i \in Workers}
    IN /\ both \subseteq CacheRolesForUser(cRoles, u, {}, 1).val
       /\ both \subseteq PersistentRolesForUser(pRoles, u, {}, 1).val

\* The second call began while the first was under way.
C15_Witness == C15_Case /\ \E i \in Workers : workers[i].raced

\* ---- C16
\* Both workers called Hybrid::register_ban for the same user with different
\* bans, and both calls have returned.
C16_Case ==
  /\ \A i \in Workers :
       workers[i].op = "register_ban" /\ Turn(workers[i]) = "done"
  /\ workers[1].arg.ban.user_id = workers[2].arg.ban.user_id
  /\ workers[1].arg.ban # workers[2].arg.ban

C16_Submitted == {{workers[i].arg.ban} : i \in Workers}
C16_InCache == CacheGetBan(BansKv, <<"id", workers[1].arg.ban.user_id>>, {}).val
C16_InTable ==
  PersistentGetBan(pBans, <<"id", workers[1].arg.ban.user_id>>, {}, 1).val

\* C16: when two workers at the same time call Hybrid::register_ban for the
\* same user with different bans, neither call fails because of the other
\* (a call whose commands all reach the stores returns Ok), and once both
\* have returned Ok each tier holds, for that user, one of the two bans,
\* whole: the one written last at that tier, never none and never a mix.
C16_LastWriteWins ==
  C16_Case =>
    /\ \A i \in Workers :
         (workers[i].c = {} /\ workers[i].p = {}) => workers[i].res.ok
    /\ (\A i \in Workers : workers[i].res.ok) =>
         (C16_InCache \in C16_Submitted /\ C16_InTable \in C16_Submitted)

\* Both returned Ok and the tiers disagree on which ban won.
C16_Witness ==
  /\ C16_Case
  /\ \A i \in Workers : workers[i].res.ok
  /\ C16_InCache \in C16_Submitted /\ C16_InTable \in C16_Submitted
  /\ C16_InCache # C16_InTable

\* ---- C17
\* C17: within one Hybrid write (set_banned, register_ban, give_role,
\* set_combination) the cache call is issued and has returned, with Ok or
\* with an error, before the first statement of the persistent call is
\* issued: no worker has sent a statement to the database, or holds the
\* persistent call's result, while its cache call has not returned.
C17_CacheBeforePersistent ==
  \A i \in Workers :
    (workers[i].pk > 0 \/ workers[i].pres # NoCall) =>
      (workers[i].ck > 0 /\ workers[i].cres # NoCall)

\* A worker between the two statements of its persistent call, the cache
\* call behind it, while the other worker's call is under way.
C17_Witness ==
  \E i \in Workers :
    /\ workers[i].op \in {"set_banned", "register_ban", "set_combination"}
    /\ workers[i].cres.ok /\ workers[i].pk = 1 /\ workers[i].pres = NoCall
    /\ \E j \in Workers \ {i} : Turn(workers[j]) \in {"cache", "persistent"}

\* ---- C21
\* set_muted(id, true, None): a mute asked for with no duration.
C21_Case ==
  last.op = "set_muted" /\ last.arg.muted /\ last.arg.duration = {}

C22_BanRead == last.op \in {"get_ban", "is_banned"}
C22_MuteRead == last.op \in {"get_mute", "is_muted"}

\* The record each tier held for the key of the read when it was made.
C22_Cached ==
  IF C22_BanRead
  THEN BanReply(IF last.arg.query[1] = "addr"
                THEN last.pre.kv.addr[last.arg.query[2]]
                ELSE last.pre.kv.banned[last.arg.query[2]])
  ELSE MuteReply(last.pre.kv[last.arg.user_id])

C22_Row ==
  IF C22_BanRead THEN PersistentGetBan(last.pre.tbl, last.arg.query, {}, 1).val
  ELSE last.pre.tbl[last.arg.user_id]

\* initiated_at + duration has passed.
C22_Expired(rec) ==
  /\ rec # {}
  /\ IF C22_BanRead
     THEN The(rec).duration # {}
          /\ now >= The(rec).initiated_at + The(The(rec).duration)
     ELSE now >= The(rec).initiated_at + The(rec).duration

C22_Answer(rec) ==
  IF last.op \in {"get_ban", "get_mute"} THEN Ok(rec) ELSE Ok(FALSE)

C22_Stores ==
  <<cBanned, cBannedAddr, cMuted, pBans, pMutes>>

\* C22: expiry is lazy.  A ban or mute whose initiated_at + duration has
\* passed and that nobody deleted is still what get_ban / get_mute return,
\* from the cache and from the persistent tier, while is_banned / is_muted
\* return Ok(false); the read leaves the record where it was, and so does
\* the passing of time.
C22_LazyExpiry ==
  /\ []((C22_BanRead \/ C22_MuteRead) =>
          /\ (last.c = {} /\ C22_Expired(C22_Cached)) =>
               last.cres = C22_Answer(C22_Cached)
          /\ (last.pres # NoCall /\ last.p = {} /\ C22_Expired(C22_Row)) =>
               last.pres = C22_Answer(C22_Row)
          /\ (IF C22_BanRead THEN BansKv ELSE cMuted) = last.pre.kv
          /\ (IF C22_BanRead THEN pBans ELSE pMutes) = last.pre.tbl)
  /\ [][(now' # now /\ last'.op = "idle") => C22_Stores' = C22_Stores]_vars

\* An expired record read from the cache, or on fallback from the
\* persistent tier.
C22_Witness ==
  /\ C22_BanRead \/ C22_MuteRead
  /\ \/ last.c = {} /\ C22_Expired(C22_Cached)
     \/ last.pres # NoCall /\ last.p = {} /\ C22_Expired(C22_Row)

\* ---- C23
\* C23: the activity law.  For every Mute with duration d and initiation
\* time t, active() evaluated at time now is true iff now < t + d; for every
\* Ban with duration None, active() is true at every time.
C23_ActivityLaw ==
  /\ last.op = "mute_active" =>
       last.res = Ok(now < last.arg.mute.initiated_at + last.arg.mute.duration)
  /\ (last.op = "ban_active" /\ last.arg.ban.duration = {}) =>
       last.res = Ok(TRUE)

\* The law for the durations that fit the signed type.
C23_ButLongMutes ==
  (last.op = "mute_active" => last.arg.mute.duration < TwoPow(DurBits - 1))
    => C23_ActivityLaw

\* ---- C24
\* C24: for a Ban with duration Some(d), for every d of the unsigned range,
\* active() equals (now < initiated_at + d): the conversion of d to the
\* signed duration of the comparison leaves its value as it is.
C24_UnsignedDuration ==
  (last.op = "ban_active" /\ last.arg.ban.duration # {}) =>
    last.res = Ok(now < last.arg.ban.initiated_at + The(last.arg.ban.duration))

\* The same for the durations below half the unsigned range.
C24_ButHalfRange ==
  (last.op = "ban_active" /\ last.arg.ban.duration # {}
     /\ The(last.arg.ban.duration) < TwoPow(DurBits - 1))
    => C24_UnsignedDuration

\* ---- C25
\* A name lookup whose cache GET failed and that returned Ok(Some(v)) from
\* the persistent tier.
C25_Case ==
  /\ last.op \in {"user_id_for", "username_for"}
  /\ ~last.cres.ok /\ last.pres # NoCall
  /\ last.res.ok /\ last.res.val # {}

C25_Name ==
  IF last.op = "user_id_for" THEN last.arg.username ELSE The(last.res.val)
C25_Id ==
  IF last.op = "user_id_for" THEN The(last.res.val) ELSE last.arg.user_id

\* C25: after Hybrid::user_id_for or Hybrid::username_for has fallen back to
\* the persistent tier on a cache error and returned Ok(Some(v)), the cache
\* holds both directions of the recovered pair, user_id::<username> and
\* username::<user_id>, so that Cache::user_id_for and Cache::username_for
\* return the pair's values without the persistent tier.
C25_ReadRepair ==
  C25_Case =>
    /\ cUserId[C25_Name] = {C25_Id} /\ cUsername[C25_Id] = {C25_Name}
    /\ CacheUserIdFor(NamesKv, C25_Name, {}, 1) = Ok({C25_Id})
    /\ CacheUsernameFor(NamesKv, C25_Id, {}, 1) = Ok({C25_Name})

\* The cache knew neither direction before the lookup.
C25_Witness ==
  /\ C25_Case
  /\ last.pre.kv.uid[C25_Name] = {} /\ last.pre.kv.uname[C25_Id] = {}

\* ---- C26
\* Hybrid::roles_for_user fell back to the persistent tier and returned Ok(R).
C26_Case ==
  /\ last.op = "roles_for_user"
  /\ ~last.cres.ok /\ last.pres # NoCall /\ last.res.ok

C26_CacheNow == CacheRolesForUser(cRoles, last.arg.user_id, {}, 1).val

\* C26: after Hybrid::roles_for_user has fallen back to the persistent tier
\* and returned Ok(R), the cache's role set of the user is R, so that the
\* next Cache::roles_for_user returns R and nothing else, also when the
\* cache held roles that are not in R.
C26_CacheBecomesRecovered == C26_Case => C26_CacheNow = last.res.val

\* What the write-back does give: the recovered roles are in the cache.
C26_ButRecoveredAdded ==
  C26_Case =>
    /\ last.res.val # {}
    /\ C26_CacheNow =
         CacheRolesForUser(last.pre.kv, last.arg.user_id, {}, 1).val
           \cup last.res.val

\* ---- C27
\* C27: Hybrid::get_ban, is_banned, get_mute and is_muted modify neither
\* tier: the cache and the persistent tier hold after the call what they
\* held before it, whether the cache answered or the read fell back to the
\* persistent tier.
C27_ReadsWriteNothing ==
  /\ last.op \in {"get_ban", "is_banned"} =>
       (BansKv = last.pre.kv /\ pBans = last.pre.tbl)
  /\ last.op \in {"get_mute", "is_muted"} =>
       (cMuted = last.pre.kv /\ pMutes = last.pre.tbl)

\* The read fell back and found a record the cache does not hold; the cache
\* still does not hold it.
C27_Witness ==
  /\ last.op \in {"get_ban", "get_mute"}
  /\ ~last.cres.ok /\ last.pres.ok /\ last.pres.val # {}
  /\ IF last.op = "get_ban"
     THEN cBanned[The(last.pres.val).user_id] = {}
     ELSE cMuted[last.arg.user_id] = {}

\* ---- C28
\* The usernames Persistent::user_id_for resolves to user_id.
C28_NamesOf(user_id) ==
  {n \in Names : PersistentUserIdFor(NamesDb, n, {}) = Ok({user_id})}

\* C28: the persistent tier maps each user_id to at most one username: after
\* a Persistent::set_combination that succeeded, no username but the one
\* just set resolves, by Persistent::user_id_for, to that user_id; setting
\* a new username for a user removes the resolution of the old one.
C28_OneNamePerUser ==
  (last.op = "set_combination" /\ last.pres.ok) =>
    C28_NamesOf(last.arg.user_id) = {last.arg.username}

\* What the update-on-set does keep single: the username column of the
\* user's row in table users, and the user_id a username resolves to.
C28_ButUsersColumn ==
  (last.op = "set_combination" /\ last.pres.ok) =>
    /\ last.arg.username \in C28_NamesOf(last.arg.user_id)
    /\ pUsers[last.arg.user_id] \in {{}, {{last.arg.username}}}

\* ---- C29
C29_Set == last.op = "set_combination"
C29_RowPresent == last.pre.tbl.users[last.arg.user_id] # {}

\* C29: the name mapping round-trips.  Right after set_combination(name, id)
\* returned Ok, username_for(id) returns Some(name) and user_id_for(name)
\* returns Some(id): from Cache, from Persistent when the user has a row in
\* table users, and from Hybrid (which, with the row present, also answers
\* so when its cache read fails and it falls back).
C29_RoundTrip ==
  C29_Set =>
    LET n == last.arg.username
        u == last.arg.user_id
    IN /\ last.cres.ok =>
            /\ CacheUsernameFor(NamesKv, u, {}, 1) = Ok({n})
            /\ CacheUserIdFor(NamesKv, n, {}, 1) = Ok({u})
       /\ (last.pres.ok /\ C29_RowPresent) =>
            /\ PersistentUsernameFor(NamesDb, u, {}) = Ok({n})
            /\ PersistentUserIdFor(NamesDb, n, {}) = Ok({u})
       /\ last.res.ok =>
            /\ HybridUsernameFor(NamesKv, NamesDb, u, {}, {}).res = Ok({n})
            /\ HybridUserIdFor(NamesKv, NamesDb, n, {}, {}).res = Ok({u})
       /\ (last.res.ok /\ C29_RowPresent) =>
            /\ HybridUsernameFor(NamesKv, NamesDb, u, {1}, {}).res = Ok({n})
            /\ HybridUserIdFor(NamesKv, NamesDb, n, {1}, {}).res = Ok({u})

\* The user had a row and another username before.
C29_Witness ==
  /\ C29_Set /\ last.res.ok
  /\ C29_RowPresent
  /\ last.pre.tbl.users[last.arg.user_id] \notin {{{}}, {{last.arg.username}}}

\* ---- C30
\* The tier holds a ban of the user that has no duration.
C30_CachePermanent(u) ==
  /\ BanReply(cBanned[u]) # {}
  /\ The(BanReply(cBanned[u])).duration = {}
C30_RowPermanent(u) == pBans[u] # {} /\ The(pBans[u]).duration = {}

\* What is_banned(Id(u)) answers at time t with both stores reachable.
C30_CacheSays(u, t) == CacheIsBanned(BansKv, <<"id", u>>, {}, t)
C30_PersistentSays(u, t) == PersistentIsBanned(pBans, <<"id", u>>, {}, t)
C30_HybridSays(u, t) == HybridIsBanned(BansKv, pBans, <<"id", u>>, {}, {}, t).res

\* The call in flight is a ban or a stamped record for user u: a write of the
\* same user, which replaces the ban rather than lifting it.
C30_Rebans(u) ==
  \/ last.op = "set_banned" /\ last.arg.user_id = u /\ last.arg.banned
  \/ last.op = "register_ban" /\ last.arg.ban.user_id = u

C30_Unban(u) ==
  last.op = "set_banned" /\ last.arg.user_id = u /\ ~last.arg.banned

\* The step is a call of this program (not another redis client's write).
C30_OwnStep == last' # last \/ BansKv' = BansKv

\* Right after set_banned(id, true, None, ip) returned Ok the tier holds the
\* permanent ban.
C30_Set ==
  (last.op = "set_banned" /\ last.arg.banned /\ last.arg.duration = {}) =>
    /\ last.cres.ok => C30_CachePermanent(last.arg.user_id)
    /\ last.pres.ok => C30_RowPermanent(last.arg.user_id)

\* C30: a permanent ban sticks.  In each provider, once
\* set_banned(id, true, None, ip) returned Ok, is_banned(Id(id)) returns
\* Ok(true) at every later time, until a set_banned(id, false, ..) of that
\* provider returns Ok, whatever is called for other users and however time
\* passes in between.
C30_PermanentBanSticks ==
  /\ [](C30_Set)
  /\ [][\A u \in Users : (C30_OwnStep /\ ~C30_Rebans(u)') =>
          /\ (C30_CachePermanent(u) /\ ~(C30_Unban(u)' /\ last'.cres.ok)) =>
               \A t \in 0..(MaxTime + 1) : C30_CacheSays(u, t)' = Ok(TRUE)
          /\ (C30_RowPermanent(u) /\ ~(C30_Unban(u)' /\ last'.pres.ok)) =>
               \A t \in 0..(MaxTime + 1) : C30_PersistentSays(u, t)' = Ok(TRUE)
          /\ (C30_CachePermanent(u) /\ C30_RowPermanent(u)
                /\ ~(C30_Unban(u)' /\ last'.res.ok)) =>
               \A t \in 0..(MaxTime + 1) : C30_HybridSays(u, t)' = Ok(TRUE)]_vars

\* What does hold: the ban sticks in Cache and in Persistent, and Hybrid
\* answers true until the cache half of a set_banned(id, false, ..) went
\* through, whether or not the call as a whole returned Ok.
C30_ButCacheHalf ==
  /\ [](C30_Set)
  /\ [][\A u \in Users : (C30_OwnStep /\ ~C30_Rebans(u)') =>
          /\ (C30_CachePermanent(u) /\ ~(C30_Unban(u)' /\ last'.cres.ok)) =>
               \A t \in 0..(MaxTime + 1) : C30_CacheSays(u, t)' = Ok(TRUE)
          /\ (C30_RowPermanent(u) /\ ~(C30_Unban(u)' /\ last'.pres.ok)) =>
               \A t \in 0..(MaxTime + 1) : C30_PersistentSays(u, t)' = Ok(TRUE)
          /\ (C30_CachePermanent(u) /\ C30_RowPermanent(u)
                /\ ~(C30_Unban(u)' /\ last'.cres.ok)) =>
               \A t \in 0..(MaxTime + 1) : C30_HybridSays(u, t)' = Ok(TRUE)]_vars

\* ---- C31
\* Both tiers hold the role for the user, as after a give_role that returned Ok.
C31_Granted(u, r) ==
  /\ RoleToStr(r) \in cRoles[u]
  /\ pRoles[u] # {} /\ RoleEntryHasRole(The(pRoles[u]), r)

\* What Hybrid::has_role answers with both stores reachable.
C31_HasRole(u, r) == HybridHasRole(cRoles, pRoles, u, r, {}, {}).res

\* The call in flight takes role r from user u.
C31_Takes(u, r) ==
  \/ last.op = "remove_role" /\ last.arg.user_id = u /\ last.arg.role = r
  \/ last.op = "purge_roles" /\ last.arg.user_id = u

C31_Gave == last.op = "give_role" /\ last.res.ok

\* C31: after Hybrid::give_role(id, r) returned Ok, Hybrid::has_role(id, r)
\* returns Ok(true) until a remove_role(id, r) or a purge_roles(id) returns
\* Ok; and the grant changes has_role(id, r') for no other role r'.
C31_GrantSticks ==
  /\ [](C31_Gave => C31_Granted(last.arg.user_id, last.arg.role))
  /\ [][\A u \in Users, r \in Roles :
          (C31_Granted(u, r) /\ ~(C31_Takes(u, r)' /\ last'.res.ok)) =>
            C31_HasRole(u, r)' = Ok(TRUE)]_vars
  /\ [][\A u \in Users, r \in Roles :
          (C31_Gave' /\ last'.arg.user_id = u /\ last'.arg.role # r) =>
            C31_HasRole(u, r)' = C31_HasRole(u, r)]_vars

\* What does hold: has_role answers true until the cache half of a
\* remove_role or purge_roles went through, whatever the call returned.
C31_ButCacheHalf ==
  /\ [](C31_Gave => C31_Granted(last.arg.user_id, last.arg.role))
  /\ [][\A u \in Users, r \in Roles :
          (C31_Granted(u, r) /\ ~(C31_Takes(u, r)' /\ last'.cres.ok)) =>
            C31_HasRole(u, r)' = Ok(TRUE)]_vars
  /\ [][\A u \in Users, r \in Roles :
          (C31_Gave' /\ last'.arg.user_id = u /\ last'.arg.role # r) =>
            C31_HasRole(u, r)' = C31_HasRole(u, r)]_vars

\* ---- C32
C32_User == last.arg.ban.user_id

\* The ban b1 a tier held for the user before the call (none: {}).
C32_CacheHeld == BanReply(last.pre.kv.banned[C32_User])
C32_RowHeld == last.pre.tbl[C32_User]

\* The addresses of b1 that the new ban does not carry.
C32_OldAddrs(held) ==
  {a \in Addrs : held # {} /\ The(held).ip = {a} /\ last.arg.ban.ip # {a}}

\* C32: a later ban on the same user supersedes the earlier one.  After
\* register_ban(b2) succeeded in a tier that held b1 for the user, get_ban by
\* the user's id returns b2 in that tier, and get_ban by b1's address, when b2
\* has another address or none, no longer returns b1.
C32_Supersedes ==
  last.op = "register_ban" =>
    /\ (last.cres.ok /\ C32_CacheHeld # {}) =>
         /\ CacheGetBan(BansKv, <<"id", C32_User>>, {}) = Ok({last.arg.ban})
         /\ \A a \in C32_OldAddrs(C32_CacheHeld) :
              CacheGetBan(BansKv, <<"addr", a>>, {}) # Ok(C32_CacheHeld)
    /\ (last.pres.ok /\ C32_RowHeld # {}) =>
         /\ PersistentGetBan(pBans, <<"id", C32_User>>, {}, 1) = Ok({last.arg.ban})
         /\ \A a \in C32_OldAddrs(C32_RowHeld) :
              PersistentGetBan(pBans, <<"addr", a>>, {}, 1) # Ok(C32_RowHeld)

\* What does hold: the lookup by id returns b2 in both tiers, and the
\* persistent tier no longer returns b1 under its address.
C32_ButCacheAddress ==
  last.op = "register_ban" =>
    /\ (last.cres.ok /\ C32_CacheHeld # {}) =>
         CacheGetBan(BansKv, <<"id", C32_User>>, {}) = Ok({last.arg.ban})
    /\ (last.pres.ok /\ C32_RowHeld # {}) =>
         /\ PersistentGetBan(pBans, <<"id", C32_User>>, {}, 1) = Ok({last.arg.ban})
         /\ \A a \in C32_OldAddrs(C32_RowHeld) :
              PersistentGetBan(pBans, <<"addr", a>>, {}, 1) # Ok(C32_RowHeld)

\* ---- C33
\* The members of the user's set before the call, as redis holds them.
C33_Stored == last.pre.kv[last.arg.user_id]

\* C33: the string encoding of roles is a bijection on the six roles.
\* Parsing r.to_str() yields r, the six identifiers are pairwise distinct and
\* every other string fails to parse; Cache::roles_for_user returns Ok with
\* exactly the roles whose identifier is a member of the stored set, and
\* drops the members that name no role without an error.
C33_RoleEncoding ==
  /\ \A r \in Roles : RoleFromStr(RoleToStr(r)) = Ok(r)
  /\ \A r1, r2 \in Roles : RoleToStr(r1) = RoleToStr(r2) => r1 = r2
  /\ \A s \in ForeignStrings \cup UNION {cRoles[u] : u \in Users} :
       RoleFromStr(s).ok <=> \E r \in Roles : s = RoleToStr(r)
  /\ (last.op = "roles_for_user" /\ 1 \notin last.c) =>
       last.cres = Ok({r \in Roles : RoleToStr(r) \in C33_Stored})

\* The set read held a role's identifier next to a string that names no role.
C33_Witness ==
  /\ last.op = "roles_for_user" /\ last.cres.ok
  /\ \E s \in C33_Stored : RoleFromStr(s).ok
  /\ \E s \in C33_Stored : ~RoleFromStr(s).ok

\* ---- C34
C34_BanSet ==
  last.op = "set_banned" /\ last.arg.banned /\ last.arg.duration # {} /\ last.res.ok
C34_MuteSet ==
  last.op = "set_muted" /\ last.arg.muted /\ last.arg.duration # {} /\ last.res.ok

\* The instants from the call on, to past the end of the longest duration.
C34_Later == now..(MaxTime + TwoPow(DurBits))

\* C34: Hybrid::set_banned(id, true, Some(d), ..) and
\* Hybrid::set_muted(id, true, Some(d)) store the same record in both tiers,
\* with the same initiated_at, so that at every later instant the cache's
\* is_banned(Id(id)) / is_muted(id) equals the persistent tier's.
C34_SameRecord ==
  /\ C34_BanSet =>
       /\ BanReply(cBanned[last.arg.user_id]) = pBans[last.arg.user_id]
       /\ \A t \in C34_Later :
            CacheIsBanned(BansKv, <<"id", last.arg.user_id>>, {}, t)
              = PersistentIsBanned(pBans, <<"id", last.arg.user_id>>, {}, t)
  /\ C34_MuteSet =>
       /\ MuteReply(cMuted[last.arg.user_id]) = pMutes[last.arg.user_id]
       /\ \A t \in C34_Later :
            CacheIsMuted(cMuted, last.arg.user_id, {}, 1, t)
              = PersistentIsMuted(pMutes, last.arg.user_id, {}, t)

\* What does hold: both tiers hold a record of the user with the duration
\* given (and the address given), the cache's stamped no later than the
\* persistent tier's.
C34_ButClockReadTwice ==
  /\ C34_BanSet =>
       LET cb == The(BanReply(cBanned[last.arg.user_id]))
           pb == The(pBans[last.arg.user_id])
       IN /\ BanReply(cBanned[last.arg.user_id]) # {} /\ pBans[last.arg.user_id] # {}
          /\ cb.duration = last.arg.duration /\ pb.duration = last.arg.duration
          /\ cb.ip = last.arg.ip /\ pb.ip = last.arg.ip
          /\ cb.initiated_at <= pb.initiated_at
  /\ C34_MuteSet =>
       LET cm == The(MuteReply(cMuted[last.arg.user_id]))
           pm == The(pMutes[last.arg.user_id])
       IN /\ MuteReply(cMuted[last.arg.user_id]) # {} /\ pMutes[last.arg.user_id] # {}
          /\ cm.duration = The(last.arg.duration) /\ pm.duration = The(last.arg.duration)
          /\ cm.initiated_at <= pm.initiated_at

\* ---- C35
C35_Unbanned ==
  last.op = "set_banned" /\ ~last.arg.banned /\ last.res.ok

\* The user's former ban, as each tier held it before the call.
C35_CacheFormer == BanReply(last.pre.kv.banned[last.arg.user_id])
C35_RowFormer == last.pre.tbl[last.arg.user_id]

\* The tier answers the query with the former ban, and is_banned says true.
C35_CacheReports(q, former) ==
  /\ former # {} /\ CacheGetBan(BansKv, q, {}) = Ok(former)
  /\ CacheIsBanned(BansKv, q, {}, now) = Ok(TRUE)
C35_PersistentReports(q, former) ==
  /\ former # {} /\ PersistentGetBan(pBans, q, {}, 1) = Ok(former)
  /\ PersistentIsBanned(pBans, q, {}, now) = Ok(TRUE)

C35_Queries(former) ==
  {<<"id", last.arg.user_id>>} \cup
    {<<"addr", a>> : a \in {x \in Addrs : former # {} /\ The(former).ip = {x}}}

\* C35: unban is complete.  After Hybrid::set_banned(id, false, None, ip)
\* returned Ok, whatever the ip argument, neither tier reports the user's
\* former ban: is_banned by the user's id is false in both tiers, and no
\* lookup by an address the ban was registered with still finds it banned.
C35_UnbanComplete ==
  C35_Unbanned =>
    /\ CacheIsBanned(BansKv, <<"id", last.arg.user_id>>, {}, now) = Ok(FALSE)
    /\ PersistentIsBanned(pBans, <<"id", last.arg.user_id>>, {}, now) = Ok(FALSE)
    /\ \A q \in C35_Queries(C35_CacheFormer) : ~C35_CacheReports(q, C35_CacheFormer)
    /\ \A q \in C35_Queries(C35_RowFormer) : ~C35_PersistentReports(q, C35_RowFormer)

\* What does hold: the lookups by id are false in both tiers, the persistent
\* tier finds the ban under no address, and the cache finds it under no
\* address that was passed to the unban.
C35_ButAddressGiven ==
  C35_Unbanned =>
    /\ CacheIsBanned(BansKv, <<"id", last.arg.user_id>>, {}, now) = Ok(FALSE)
    /\ PersistentIsBanned(pBans, <<"id", last.arg.user_id>>, {}, now) = Ok(FALSE)
    /\ \A q \in C35_Queries(C35_CacheFormer) :
         (q[1] = "addr" /\ last.arg.ip = {q[2]}) => ~C35_CacheReports(q, C35_CacheFormer)
    /\ \A q \in C35_Queries(C35_RowFormer) : ~C35_PersistentReports(q, C35_RowFormer)

\* ---- C36
\* C36: in the cache the address index agrees with the id index.  After any
\* sequence of Cache::register_ban / set_banned calls that succeeded, for
\* every address a, if get_ban(Address(a)) returns Some(b) then
\* get_ban(Id(b.user_id)) returns the same record b.
C36_IndexesAgree ==
  \A a \in Addrs :
    LET b == CacheGetBan(BansKv, <<"addr", a>>, {}).val
    IN b # {} => CacheGetBan(BansKv, <<"id", The(b).user_id>>, {}) = Ok(b)

\* What does hold: a ban found under an address carries that address.
C36_ButOwnAddress ==
  \A a \in Addrs :
    LET b == CacheGetBan(BansKv, <<"addr", a>>, {}).val
    IN b # {} => The(b).ip = {a}

\* ---- C37
\* C37: in the cache the two directions of the name mapping agree.  After
\* any sequence of Cache::set_combination calls that succeeded, for every
\* user_id i, username_for(i) = Some(u) implies user_id_for(u) = Some(i), and
\* for every username u, user_id_for(u) = Some(i) implies
\* username_for(i) = Some(u).
C37_DirectionsAgree ==
  /\ \A i \in Users :
       LET u == CacheUsernameFor(NamesKv, i, {}, 1).val
       IN u # {} => CacheUserIdFor(NamesKv, The(u), {}, 1) = Ok({i})
  /\ \A u \in Names :
       LET i == CacheUserIdFor(NamesKv, u, {}, 1).val
       IN i # {} => CacheUsernameFor(NamesKv, The(i), {}, 1) = Ok({u})

\* What does hold: the pair written last is there in both directions.
C37_ButLastPair ==
  (last.op = "set_combination" /\ last.cres.ok) =>
    /\ CacheUsernameFor(NamesKv, last.arg.user_id, {}, 1) = Ok({last.arg.username})
    /\ CacheUserIdFor(NamesKv, last.arg.username, {}, 1) = Ok({last.arg.user_id})

\* ---- C38
\* Every worker has called set_banned(u, true, ..) and all calls are over.
C38_AllBanned(u) ==
  \A w \in Workers :
    /\ workers[w].op = "set_banned" /\ workers[w].arg.banned
    /\ workers[w].arg.user_id = u
    /\ Turn(workers[w]) = "done"

\* The workers whose call succeeded in the tier, and those it answered false.
C38_CacheOk == {w \in Workers : workers[w].cres.ok}
C38_CacheFirst == {w \in C38_CacheOk : ~workers[w].cres.val}
C38_PersistentOk == {w \in Workers : workers[w].pres.ok}
C38_PersistentFirst == {w \in C38_PersistentOk : ~workers[w].pres.val}

\* C38: when several workers call set_banned(id, true, ..) at the same time
\* on a user who has no ban, exactly one of the calls that succeed in a tier
\* returns false and all others return true, in the Cache tier and in the
\* Persistent tier.
C38_ExactlyOneFirst ==
  \A u \in Users :
    C38_AllBanned(u) =>
      /\ C38_CacheOk # {} => Cardinality(C38_CacheFirst) = 1
      /\ C38_PersistentOk # {} => Cardinality(C38_PersistentFirst) = 1

\* What does hold: the cache answers false to exactly one, and the
\* persistent tier to at least one.
C38_ButCacheOnly ==
  \A u \in Users :
    C38_AllBanned(u) =>
      /\ C38_CacheOk # {} => Cardinality(C38_CacheFirst) = 1
      /\ C38_PersistentOk # {} => C38_PersistentFirst # {}

\* ---- C39
\* Worker g granted role r to user u and worker q purged u's roles; both
\* calls are over.
C39_Raced(g, q, u) ==
  /\ workers[g].op = "give_role" /\ workers[g].arg.user_id = u
  /\ workers[q].op = "purge_roles" /\ workers[q].arg.user_id = u
  /\ Turn(workers[g]) = "done" /\ Turn(workers[q]) = "done"

\* C39: purge_roles loses no grant silently.  When a give_role(id, r) by
\* another worker succeeds in a tier while purge_roles(id) runs on that tier,
\* then after both calls either r is in the list purge_roles returned from the
\* tier or the user still holds r in the tier.
C39_NoGrantLost ==
  \A g, q \in Workers, u \in Users :
    C39_Raced(g, q, u) =>
      LET r == workers[g].arg.role
      IN /\ (workers[g].cres.ok /\ workers[q].cres.ok) =>
              (r \in workers[q].cres.val \/ RoleToStr(r) \in cRoles[u])
         /\ (workers[g].pres.ok /\ workers[q].pres.ok) =>
              \/ r \in workers[q].pres.val
              \/ pRoles[u] # {} /\ RoleEntryHasRole(The(pRoles[u]), r)

\* ---- C40
C40_Write ==
  /\ last.op \in {"set_banned", "set_muted", "register_ban", "register_mute",
                  "purge_roles"}
  /\ last.cres.ok /\ last.pres.ok

\* C40: when a Hybrid write succeeds in both tiers, the value it returns (the
\* flag of set_banned / set_muted, the previous record of register_ban /
\* register_mute, the list of purge_roles) is the persistent tier's result;
\* the cache's value is discarded, also when it differs.
C40_PersistentValue == C40_Write => last.res = last.pres

\* The two tiers returned different values.
C40_Witness == C40_Write /\ last.cres.val # last.pres.val
====
